---- MODULE Spec2Model ----
(***************************************************************************)
(* Model of the nifdocsys schema compiler: the schema loader of nifxml.py  *)
(* (Basic / Compound / Block / Member construction), the post-load patch   *)
(* of gen_niflib.py and the emission engine CFile.stream / CFile.declare / *)
(* code_construct of gen_niflib.py.                                        *)
(*                                                                         *)
(* The schema document is an input chosen in Init.  Attribute values that  *)
(* the loader parses into Expr objects are given as (lhs, op, rhs)         *)
(* triples.  Emitted C++ lines are records: txt is the text handed to      *)
(* CFile.code, k names the statement of stream that emitted it, call / fld *)
(* name the stream invocation and the field being processed.               *)
(*                                                                         *)
(* Two further parts stand beside the generator: the expression parser and *)
(* evaluator nifxml.Expression, on texts given as sequences of characters, *)
(* and the custom code sections that gen_niflib.py carries over from the   *)
(* previous version of a generated file (extract_custom_code).             *)
(***************************************************************************)
EXTENDS Integers, Sequences, FiniteSets, TLC

\* longest field list of the block under test
MaxFields == 3

\* the recursion limit of the interpreter (sys.getrecursionlimit()), scaled
\* down: the number of activation records of stream that may be live
MaxDepth == 4

VARIABLES
    doc,            \* the parsed XML document (input, never written)
    loadpos,        \* number of elements the module-level load loops have consumed
    basic_types,    \* nifxml.basic_types    : name -> Basic
    compound_types, \* nifxml.compound_types : name -> Compound
    block_types,    \* nifxml.block_types    : name -> Block
    pc,             \* "load", "idle" (between generator calls), "stream", "abort"
    stack,          \* activation records of CFile.stream, innermost last
    out,            \* lines written to the current CFile by the current generator call
    indent,         \* CFile.indent
    ncalls,         \* number of stream invocations made by the current generator call
    skipped,        \* <<call, field index>> of the fields that took the `continue` of the link check
    gen,            \* what the generator is producing: the call, the type x and the action
    expr,           \* an expression string on its way through nifxml.Expression: text, data, tree, value
    file            \* a generated file on disk and the custom code read from and written to it

vars == <<doc, loadpos, basic_types, compound_types, block_types, pc, stack, out, indent, ncalls, skipped, gen, expr, file>>

\* the schema-and-generator part of the state
progvars == <<doc, loadpos, basic_types, compound_types, block_types, pc, stack, out, indent, ncalls, skipped, gen>>

-----------------------------------------------------------------------------
\* Python values

\* None, where the other values are integers (version2number, userversion2number)
NoneVal == -1
\* None, where the other values are strings (lastcond, lastvercond, arg_member)
NoneStr == "None"

ACTION_READ == 0
ACTION_WRITE == 1
ACTION_OUT == 2
ACTION_FIXLINKS == 3
ACTION_GETREFS == 4
ACTION_GETPTRS == 5
Actions == {ACTION_READ, ACTION_WRITE, ACTION_OUT, ACTION_FIXLINKS, ACTION_GETREFS, ACTION_GETPTRS}

\* the entries of NATIVETYPES for the basic types of the modelled documents
NATIVETYPES == [int |-> "int", bool |-> "bool", Ref |-> "Ref", Ptr |-> "*"]

\* the block and the field of the hard-coded manual update patch
MANUAL_BLOCK == "NiKeyframeData"
MANUAL_MEMBER == "Num Rotation Keys"

\* str.isdigit() on the strings that occur as array bounds
isdigit(s) == s \in {"0", "1", "2", "3", "4"}

\* an Expr after parsing: left-hand side, operator, right-hand side
Expr(l, o, r) == [lhs |-> l, op |-> o, rhs |-> r]
NoExpr == Expr("", "", "")

\* member_name: lower-cases every alphanumeric character except the one
\* following a space, which is upper-cased; drops spaces; maps other
\* characters to '_'.  Tabulated for the names of the modelled documents.
member_name(n) ==
    CASE n = "Num Rotation Keys" -> "numRotationKeys"
      [] n = "Rotation Keys"     -> "rotationKeys"
      [] n = "Count"             -> "count"
      [] n = "Count_A"           -> "count_a"
      [] n = "Count_B"           -> "count_b"
      [] n = "Data"              -> "data"
      [] n = "Data_A"            -> "data_a"
      [] n = "Data_B"            -> "data_b"
      [] n = "More"              -> "more"
      [] n = "More_A"            -> "more_a"
      [] n = "More_B"            -> "more_b"
      [] n = "Link"              -> "link"
      [] n = "Sub"               -> "sub"
      [] n = "Sub_B"             -> "sub_b"
      [] n = "Width"             -> "width"
      [] n = "Mask"              -> "mask"
      [] n = "Has Data"          -> "hasData"
      [] n = "Has More"          -> "hasMore"
      [] n = "User Version"      -> "userVersion"
      [] OTHER                   -> n

\* class_name: the entry of native_types, which holds the native type of every
\* basic type loaded so far, else the name itself (the names of the modelled
\* documents have no ' ' or ':' to replace)
class_name(t) ==
    IF t \in DOMAIN basic_types /\ basic_types[t].nativetype # ""
    THEN basic_types[t].nativetype ELSE t

\* a reverse that leaves the list as it is
ReverseNot(s) == s

\* list.reverse()
Reverse(s) == [i \in 1..Len(s) |-> s[Len(s) + 1 - i]]

-----------------------------------------------------------------------------
\* Schema loader (nifxml.py)

\* an <add> element with every attribute the model reads
Add(name, suffix, type, arr1, cond, ver1, userver, vercond) ==
    [name |-> name, suffix |-> suffix, type |-> type, arg |-> "", template |-> "",
     arr1 |-> arr1, arr2 |-> NoExpr, cond |-> cond, func |-> "", default |-> "",
     ver1 |-> ver1, ver2 |-> NoneVal, userver |-> userver, userver2 |-> NoneVal,
     vercond |-> vercond, abstract |-> FALSE, calculated |-> FALSE, public |-> FALSE]

\* a list that tests no right-hand side at all
LaterNamesUnfiltered(adds, i, attr) ==
    LET later == [k \in 1..(Len(adds) - i) |-> adds[i + k]]
        hit   == SelectSeq(later, LAMBDA s : s[attr].lhs = adds[i].name)
    IN  [k \in 1..Len(hit) |-> hit[k].name]

\* names of the later siblings of element i whose attribute attr (arr1, arr2
\* or cond) has the name of element i as left-hand side and, for the array
\* attributes, an empty or numeric right-hand side; in document order
LaterNames(adds, i, attr) ==
    LET later == [k \in 1..(Len(adds) - i) |-> adds[i + k]]
        hit   == SelectSeq(later, LAMBDA s :
                     /\ s[attr].lhs = adds[i].name
                     /\ attr = "cond" \/ s[attr].rhs = "" \/ isdigit(s[attr].rhs))
    IN  [k \in 1..Len(hit) |-> hit[k].name]

\* the default value of a member in the form of a C++ initializer: the value
\* synthesised for the type when the element gives none, cast to the type
\* unless the type is a reference or bool (the elements of the modelled
\* documents give no default of their own, so there is no bracket, comma or
\* static array to format)
SynthDefault(e) ==
    LET given == IF e.default = "" /\ e.arr1.lhs = "" /\ e.arr2.lhs = ""
                 THEN CASE e.type = "int"            -> "0"
                        [] e.type = "bool"           -> "false"
                        [] e.type \in {"Ref", "Ptr"} -> "NULL"
                        [] e.type \in DOMAIN basic_types -> "0"
                        [] OTHER                     -> ""
                 ELSE e.default
    IN  IF given = "" \/ e.arr1.lhs # "" \/ e.type \in {"Ref", "Ptr", "bool"}
        THEN given
        ELSE "(" \o class_name(e.type) \o ")" \o given

\* is_duplicate: an earlier sibling has the same name and this one has no suffix
is_duplicate(adds, i) ==
    \E j \in 1..(i - 1) : adds[j].name = adds[i].name /\ adds[i].suffix = ""

\* Member.__init__ applied to the i-th <add> element of a parent
Member(adds, i) ==
    LET e == adds[i]
    IN  [e EXCEPT !.default = SynthDefault(e)] @@
        [is_manual_update |-> FALSE,
         is_calculated    |-> e.calculated,
         is_abstract      |-> e.abstract,
         is_public        |-> e.public,
         is_duplicate     |-> is_duplicate(adds, i),
         arr2_dynamic     |-> \E j \in 1..(i - 1) :
                                 adds[j].name = e.arr2.lhs /\ adds[j].arr1.lhs # "",
         arr1_ref |-> LaterNames(adds, i, "arr1"),
         arr2_ref |-> LaterNames(adds, i, "arr2"),
         cond_ref |-> LaterNames(adds, i, "cond"),
         cname    |-> member_name(IF e.suffix = "" THEN e.name ELSE e.name \o "_" \o e.suffix),
         ctype    |-> class_name(e.type),
         ctemplate |-> class_name(e.template),
         carg     |-> member_name(e.arg)]

\* Basic.__init__
Basic(name) ==
    LET nativetype == IF name \in DOMAIN NATIVETYPES THEN NATIVETYPES[name] ELSE ""
    IN  \* cname is set before the type is entered into native_types
        [name |-> name, cname |-> class_name(name), nativetype |-> nativetype,
         is_link |-> nativetype = "Ref", is_crossref |-> nativetype = "*",
         has_links |-> nativetype = "Ref", has_crossrefs |-> nativetype = "*"]

\* the type object the loop of Compound.__init__ finds for a member type:
\* basic_types first, then compound_types, else nothing
LookupAtLoad(t) ==
    IF t \in DOMAIN basic_types THEN <<basic_types[t]>>
    ELSE IF t \in DOMAIN compound_types THEN <<compound_types[t]>>
    ELSE <<>>

\* Compound.__init__
Compound(el) ==
    LET all  == [i \in 1..Len(el.adds) |-> Member(el.adds, i)]
        keep == SelectSeq(all, LAMBDA x : ~(el.name = "BoundingVolume" /\ x.name = "Union"))
        found(x) == LookupAtLoad(x.type)
    IN  [name |-> el.name, cname |-> class_name(el.name), nativetype |-> "",
         is_link |-> FALSE, is_crossref |-> FALSE,
         members |-> keep,
         has_links     |-> \E i \in 1..Len(keep) :
                              found(keep[i]) # <<>> /\ found(keep[i])[1].has_links,
         has_crossrefs |-> \E i \in 1..Len(keep) :
                              found(keep[i]) # <<>> /\ found(keep[i])[1].has_crossrefs,
         inherit |-> ""]

\* Block.__init__ (the inherit lookup is the guard of LoadBlock)
Block(el) == [Compound(el) EXCEPT !.inherit = el.inherit]

NumBasic    == Len(doc.basic)
NumCompound == Len(doc.compound)
NumBlock    == Len(doc.niobject)

\* for el in XML.getElementsByTagName('basic')
LoadBasic ==
    /\ pc = "load"
    /\ loadpos < NumBasic
    /\ LET name == doc.basic[loadpos + 1]
       IN  IF name \in DOMAIN basic_types
           THEN pc' = "abort" /\ UNCHANGED <<basic_types, loadpos>>
           ELSE /\ basic_types' = basic_types @@ (name :> Basic(name))
                /\ loadpos' = loadpos + 1
                /\ pc' = pc
    /\ UNCHANGED <<doc, compound_types, block_types, stack, out, indent, ncalls, skipped, gen>>
    /\ UNCHANGED <<expr, file>>

\* for el in XML.getElementsByTagName("compound")
LoadCompound ==
    /\ pc = "load"
    /\ loadpos >= NumBasic
    /\ loadpos < NumBasic + NumCompound
    /\ LET el == doc.compound[loadpos - NumBasic + 1]
       IN  IF el.name \in DOMAIN compound_types
           THEN pc' = "abort" /\ UNCHANGED <<compound_types, loadpos>>
           ELSE /\ compound_types' = compound_types @@ (el.name :> Compound(el))
                /\ loadpos' = loadpos + 1
                /\ pc' = pc
    /\ UNCHANGED <<doc, basic_types, block_types, stack, out, indent, ncalls, skipped, gen>>
    /\ UNCHANGED <<expr, file>>

\* `self.inherit = block_types[inherit]` raises KeyError; the variant never does
InheritMissingNever(el) == FALSE

InheritMissing(el) == el.inherit # "" /\ el.inherit \notin DOMAIN block_types

\* for el in XML.getElementsByTagName("niobject")
LoadBlock ==
    /\ pc = "load"
    /\ loadpos >= NumBasic + NumCompound
    /\ loadpos < NumBasic + NumCompound + NumBlock
    /\ LET el == doc.niobject[loadpos - NumBasic - NumCompound + 1]
       IN  IF \/ InheritMissing(el)
              \/ el.name \in DOMAIN block_types
           THEN pc' = "abort" /\ UNCHANGED <<block_types, loadpos>>
           ELSE /\ block_types' = block_types @@ (el.name :> Block(el))
                /\ loadpos' = loadpos + 1
                /\ pc' = pc
    /\ UNCHANGED <<doc, basic_types, compound_types, stack, out, indent, ncalls, skipped, gen>>
    /\ UNCHANGED <<expr, file>>

\* index of the first member called name, 0 when there is none (Compound.find_member)
find_member(members, name) ==
    IF \E i \in 1..Len(members) : members[i].name = name
    THEN CHOOSE i \in 1..Len(members) :
            /\ members[i].name = name
            /\ \A j \in 1..(i - 1) : members[j].name # name
    ELSE 0

\* a patch that looks the member up and sets no flag
PatchNothing ==
    /\ pc = "load"
    /\ loadpos = NumBasic + NumCompound + NumBlock
    /\ IF MANUAL_BLOCK \in DOMAIN block_types
          /\ find_member(block_types[MANUAL_BLOCK].members, MANUAL_MEMBER) # 0
       THEN pc' = "idle"
       ELSE pc' = "abort"
    /\ UNCHANGED <<doc, loadpos, basic_types, compound_types, block_types, stack, out, indent, ncalls, skipped, gen>>
    /\ UNCHANGED <<expr, file>>

\* TYPES_BLOCK["NiKeyframeData"].find_member("Num Rotation Keys").is_manual_update = True
PatchManualUpdate ==
    /\ pc = "load"
    /\ loadpos = NumBasic + NumCompound + NumBlock
    /\ IF MANUAL_BLOCK \in DOMAIN block_types
          /\ find_member(block_types[MANUAL_BLOCK].members, MANUAL_MEMBER) # 0
       THEN LET i == find_member(block_types[MANUAL_BLOCK].members, MANUAL_MEMBER)
            IN  /\ block_types' = [block_types EXCEPT
                       ![MANUAL_BLOCK].members[i].is_manual_update = TRUE]
                /\ pc' = "idle"
       ELSE pc' = "abort" /\ UNCHANGED block_types
    /\ UNCHANGED <<doc, loadpos, basic_types, compound_types, stack, out, indent, ncalls, skipped, gen>>
    /\ UNCHANGED <<expr, file>>

-----------------------------------------------------------------------------
\* Emission engine (gen_niflib.py)

\* Python truthiness of an int-or-None and of a str-or-None
TruthyInt(v) == v # NoneVal /\ v # 0
TruthyStr(s) == s # NoneStr /\ s # ""

\* "%08X" % v for the version numbers of the modelled documents
Hex8(v) ==
    CASE v = 167772416 -> "0A000100"
      [] v = 335544324 -> "14000004"
      [] OTHER         -> "00000000"

\* one line handed to CFile.code: d is the change of CFile.indent it causes
\* (+1 when the text ends with '{', -1 when it starts with '}'); how, tgt
\* and src name the form of the statement and the members it assigns and reads
LnX(k, how, txt, d, tgt, src) ==
    [k |-> k, how |-> how, txt |-> txt, d |-> d, tgt |-> tgt, src |-> src, call |-> 0, fld |-> 0]
Ln(k, txt, d) == LnX(k, "", txt, d, "", "")

Tag(lines, call, fld) ==
    [i \in 1..Len(lines) |-> [lines[i] EXCEPT !.call = call, !.fld = fld]]

RECURSIVE Delta(_)
Delta(lines) == IF lines = <<>> THEN 0 ELSE lines[1].d + Delta(Tail(lines))

RECURSIVE Flatten(_)
Flatten(ss) == IF ss = <<>> THEN <<>> ELSE ss[1] \o Flatten(Tail(ss))

\* the operand of Expression.code: a block name, a literal, or a prefixed member
CodeOperand(x, prefix) ==
    IF x \in DOMAIN block_types THEN "IsDerivedType(" \o x \o "::TYPE)"
    ELSE IF x # "" /\ ~isdigit(x) THEN prefix \o member_name(x)
    ELSE x

\* Expr.code(prefix) with brackets and the member_name filter
ExprCode(e, prefix) ==
    IF e.op = ""
    THEN IF e.lhs = "" THEN ""
         ELSE IF e.lhs \in DOMAIN block_types THEN "IsDerivedType(" \o e.lhs \o "::TYPE)"
         ELSE prefix \o member_name(e.lhs)
    ELSE IF e.op = "!"
    THEN "(!" \o CodeOperand(e.lhs, prefix) \o ")"
    ELSE "(" \o CodeOperand(e.lhs, prefix) \o " " \o e.op \o " " \o CodeOperand(e.rhs, prefix) \o ")"

\* the type object of an activation record
FrameType(f) == IF f.isblock THEN block_types[f.block] ELSE compound_types[f.block]

\* Block.find_member(name, True) over the current member lists: own members
\* first, then the ancestors; <<>> stands for None
RECURSIVE FindInherit(_, _, _)
FindInherit(isblock, tname, name) ==
    LET t == IF isblock THEN block_types[tname] ELSE compound_types[tname]
        i == find_member(t.members, name)
    IN  IF i # 0 THEN <<t.members[i]>>
        ELSE IF isblock /\ t.inherit # "" THEN FindInherit(TRUE, t.inherit, name)
        ELSE <<>>

NewFrame(id, tname, isblock, action, localprefix, prefix, arg_prefix, arg_member) ==
    [id |-> id, block |-> tname, isblock |-> isblock, action |-> action,
     localprefix |-> localprefix, prefix |-> prefix,
     arg_prefix |-> arg_prefix, arg_member |-> arg_member,
     phase |-> "begin", idx |-> 1,
     lastver1 |-> NoneVal, lastver2 |-> NoneVal,
     lastuserver |-> NoneVal, lastuserver2 |-> NoneVal,
     lastcond |-> NoneStr, lastvercond |-> NoneStr,
     y_cond |-> "", y_vercond |-> ""]

Top == stack[Len(stack)]
SetTop(f) == [stack EXCEPT ![Len(stack)] = f]

\* the generator starts one of the six functions of a block: CPP.stream(x, ACTION_*)
Generate ==
    /\ pc = "idle"
    /\ \E b \in DOMAIN block_types, a \in Actions :
          /\ stack' = <<NewFrame(1, b, TRUE, a, "", "", "", <<>>)>>
          /\ gen' = [what |-> "stream", isblock |-> TRUE, name |-> b, action |-> a]
    /\ out' = <<>>
    /\ indent' = 1
    /\ ncalls' = 1
    /\ skipped' = {}
    /\ pc' = "stream"
    /\ UNCHANGED <<doc, loadpos, basic_types, compound_types, block_types>>
    /\ UNCHANGED <<expr, file>>

\* a stream that leaves the ancestor out
AncestorCallOmitted(f, stream) == <<>>

\* the call of the ancestor's function of the same action
AncestorCall(f, stream) ==
    LET b == FrameType(f)
        pn == class_name(b.inherit)
    IN  IF f.isblock /\ b.inherit # ""
        THEN <<LnX("ancestor", ToString(f.action),
                CASE f.action = ACTION_READ     -> pn \o "::Read( " \o stream \o ", link_stack, info );"
                  [] f.action = ACTION_WRITE    -> pn \o "::Write( " \o stream \o ", link_map, missing_link_stack, info );"
                  [] f.action = ACTION_OUT      -> stream \o " << " \o pn \o "::asString();"
                  [] f.action = ACTION_FIXLINKS -> pn \o "::FixLinks( objects, link_stack, missing_link_stack, info );"
                  [] f.action = ACTION_GETREFS  -> "refs = " \o pn \o "::GetRefs();"
                  [] f.action = ACTION_GETPTRS  -> "ptrs = " \o pn \o "::GetPtrs();", 0, pn, "")>>
        ELSE <<>>

\* Compound.has_arr, the loop over the members from the i-th on: "True",
\* "False", or "RecursionError" when the recursion enters a type it is
\* already in (fuel is the number of compounds, the longest chain of calls
\* without a repeated type)
RECURSIVE has_arr(_, _, _, _)
has_arr(isblock, tname, i, fuel) ==
    LET t == IF isblock THEN block_types[tname] ELSE compound_types[tname]
    IN  IF i > Len(t.members) THEN "False"
        ELSE IF t.members[i].arr1.lhs # "" THEN "True"
        ELSE IF t.members[i].type \in DOMAIN compound_types
        THEN IF fuel = 0 THEN "RecursionError"
             ELSE LET r == has_arr(FALSE, t.members[i].type, 1, fuel - 1)
                  IN  IF r = "False" THEN has_arr(isblock, tname, i + 1, fuel) ELSE r
        ELSE has_arr(isblock, tname, i + 1, fuel)

\* preparation: the local declarations of the function
Preparation(f) ==
    LET b == FrameType(f)
    IN  IF f.isblock \/ b.name \in {"Footer", "Header"}
        THEN (IF f.action = ACTION_READ /\ (b.has_links \/ b.has_crossrefs)
              THEN <<Ln("prep", "unsigned int block_num;", 0)>> ELSE <<>>)
          \o (IF f.action = ACTION_OUT
              THEN <<Ln("prep", "stringstream out;", 0)>>
                   \o (IF has_arr(f.isblock, f.block, 1, Cardinality(DOMAIN compound_types)) = "True"
                       THEN <<Ln("prep", "unsigned int array_output_count = 0;", 0)>> ELSE <<>>)
              ELSE <<>>)
          \o (IF f.action = ACTION_GETREFS THEN <<Ln("prep", "list<Ref<NiObject> > refs;", 0)>> ELSE <<>>)
          \o (IF f.action = ACTION_GETPTRS THEN <<Ln("prep", "list<NiObject *> ptrs;", 0)>> ELSE <<>>)
        ELSE <<>>

StreamName(action) == IF action = ACTION_READ THEN "in" ELSE "out"

\* stream, from its entry to the call of the ancestor; block.has_arr() of
\* the preparation may exceed the recursion limit, which ends the program
StreamBegin ==
    /\ pc = "stream"
    /\ Top.phase = "begin"
    /\ LET f == Top
           lines == Preparation(f) \o AncestorCall(f, StreamName(f.action))
           fails == /\ f.isblock \/ FrameType(f).name \in {"Footer", "Header"}
                    /\ f.action = ACTION_OUT
                    /\ has_arr(f.isblock, f.block, 1, Cardinality(DOMAIN compound_types)) = "RecursionError"
       IN  IF fails
           THEN /\ out' = out \o Tag(<<Ln("prep", "stringstream out;", 0)>>, f.id, 0)
                /\ pc' = "abort"
                /\ UNCHANGED stack
           ELSE /\ out' = out \o Tag(lines, f.id, 0)
                /\ pc' = pc
                /\ stack' = SetTop([f EXCEPT !.phase =
                      IF f.action \in {ACTION_READ, ACTION_WRITE, ACTION_OUT} THEN "compute" ELSE "fields"])
    /\ UNCHANGED <<doc, loadpos, basic_types, compound_types, block_types, indent, ncalls, skipped, gen>>
    /\ UNCHANGED <<expr, file>>

\* a lookup in declaration order instead of the reversed order
FindCrefForward(f, rmembers, name) ==
    LET ms == Reverse(rmembers)
        i  == find_member(ms, name)
    IN  IF i # 0 THEN <<ms[i]>> ELSE <<>>

\* the member cref the reverse pass looks up for the first entry of a *_ref list:
\* block.find_member(name, True) while block.members is reversed
FindCref(f, rmembers, name) ==
    LET i == find_member(rmembers, name)
        b == FrameType(f)
    IN  IF i # 0 THEN <<rmembers[i]>>
        ELSE IF f.isblock /\ b.inherit # "" THEN FindInherit(TRUE, b.inherit, name)
        ELSE <<>>

\* the reverse pass dereferences a cref that is None
ComputeFails(f, y, rmembers) ==
    /\ ~y.is_duplicate /\ ~y.is_manual_update /\ f.action \in {ACTION_WRITE, ACTION_OUT}
    /\ y.func = "" /\ ~y.is_calculated
    /\ \/ y.arr1_ref # <<>> /\ y.arr1.lhs = "" /\ FindCref(f, rmembers, y.arr1_ref[1]) = <<>>
       \/ y.arr1_ref = <<>> /\ y.arr2_ref # <<>> /\ FindCref(f, rmembers, y.arr2_ref[1]) = <<>>

\* a reverse pass that calls the Calc function whatever the action
EmitsCalcAlways(action) == TRUE

\* the actions for which the reverse pass calls the Calc function of a calculated member
EmitsCalc(action) == action \in {ACTION_READ, ACTION_WRITE}

\* the statements the reverse pass emits for member y
ComputeStmt(f, y, rmembers, ind) ==
    LET p == f.prefix
        I == "i" \o ToString(ind)
    IN  IF ~y.is_duplicate /\ ~y.is_manual_update /\ f.action \in {ACTION_WRITE, ACTION_OUT}
        THEN IF y.func # ""
             THEN <<LnX("compute", "func", p \o y.cname \o " = " \o p \o y.func \o "();", 0, y.cname, y.func)>>
             ELSE IF y.is_calculated
             THEN IF EmitsCalc(f.action)
                  THEN <<LnX("compute", "calc", p \o y.cname \o " = " \o p \o y.cname \o "Calc(info);", 0, y.cname, y.cname)>>
                  ELSE <<>>
             ELSE IF y.arr1_ref # <<>>
             THEN IF y.arr1.lhs = ""
                  THEN LET cref == FindCref(f, rmembers, y.arr1_ref[1])[1]
                       IN  <<LnX("compute", "size", p \o y.cname \o " = (" \o y.ctype \o ")(" \o p
                                   \o cref.cname \o ".size());", 0, y.cname, cref.cname)>>
                  ELSE <<>>
             ELSE IF y.arr2_ref # <<>>
             THEN LET cref == FindCref(f, rmembers, y.arr2_ref[1])[1]
                  IN  IF y.arr1.lhs = ""
                      THEN <<LnX("compute", "size2", p \o y.cname \o " = (" \o y.ctype \o ")((" \o p
                                   \o cref.cname \o ".size() > 0) ? " \o p \o cref.cname
                                   \o "[0].size() : 0);", 0, y.cname, cref.cname)>>
                      ELSE <<LnX("compute", "size2for", "for (unsigned int " \o I \o " = 0; " \o I \o " < " \o p
                                   \o cref.cname \o ".size(); " \o I \o "++)", 0, y.cname, cref.cname),
                             LnX("compute", "size2dyn", "\t" \o p \o y.cname \o "[" \o I \o "] = (" \o y.ctype
                                   \o ")(" \o p \o cref.cname \o "[" \o I \o "].size());", 0, y.cname, cref.cname)>>
             ELSE <<>>
        ELSE <<>>

\* the lines of the whole reverse pass over the reversed member list, up to
\* the first member whose cref is missing; order[i] is the declaration index
\* of rmembers[i]
ComputeLines(f, rmembers, order, ind) ==
    LET n == Len(rmembers)
        bad == {i \in 1..n : ComputeFails(f, rmembers[i], rmembers)}
        stop == IF bad = {} THEN n + 1 ELSE CHOOSE i \in bad : \A j \in bad : i <= j
    IN  Flatten([i \in 1..(stop - 1) |->
            Tag(ComputeStmt(f, rmembers[i], rmembers, ind), f.id, order[i])])

SetMembers(f, ms) ==
    IF f.isblock
    THEN /\ block_types' = [block_types EXCEPT ![f.block].members = ms]
         /\ UNCHANGED compound_types
    ELSE /\ compound_types' = [compound_types EXCEPT ![f.block].members = ms]
         /\ UNCHANGED block_types

\* a pass that leaves the list reversed
UndoReverseNot(rmembers) == rmembers

\* block.members.reverse()  # undo reverse
UndoReverse(rmembers) == Reverse(rmembers)

\* "declare and calculate local variables": reverse the member list, emit the
\* recompute statements, undo the reverse
ComputePass ==
    /\ pc = "stream"
    /\ Top.phase = "compute"
    /\ LET f == Top
           ms == FrameType(f).members
           order == Reverse([i \in 1..Len(ms) |-> i])
           rmembers == [i \in 1..Len(ms) |-> ms[order[i]]]
           fails == \E i \in 1..Len(rmembers) : ComputeFails(f, rmembers[i], rmembers)
       IN  /\ out' = out \o ComputeLines(f, rmembers, order, indent)
           /\ IF fails
              THEN /\ pc' = "abort"
                   /\ SetMembers(f, rmembers)
                   /\ UNCHANGED stack
              ELSE /\ pc' = pc
                   /\ SetMembers(f, UndoReverse(rmembers))
                   /\ stack' = SetTop([f EXCEPT !.phase = "fields"])
    /\ UNCHANGED <<doc, loadpos, basic_types, indent, ncalls, skipped, gen>>
    /\ UNCHANGED <<expr, file>>

\* the pieces the new version guard conjoins with " && "
VerPieces(y, y_vercond) ==
       (IF TruthyInt(y.ver1) THEN <<"( info.version >= 0x" \o Hex8(y.ver1) \o " )">> ELSE <<>>)
    \o (IF TruthyInt(y.ver2) THEN <<"( info.version <= 0x" \o Hex8(y.ver2) \o " )">> ELSE <<>>)
    \o (IF y.userver # NoneVal
        THEN <<"( info.userVersion == " \o ToString(y.userver) \o " )">> ELSE <<>>)
    \o (IF y.userver2 # NoneVal
        THEN <<"( info.userVersion2 == " \o ToString(y.userver2) \o " )">> ELSE <<>>)
    \o (IF y_vercond # "" THEN <<"( " \o y_vercond \o " )">> ELSE <<>>)

RECURSIVE JoinAnd(_)
JoinAnd(ps) ==
    IF Len(ps) = 1 THEN ps[1] ELSE ps[1] \o " && " \o JoinAnd(Tail(ps))

\* the old version guard is closed when the version tuple changes
CloseOldVersion(f) ==
    \/ TruthyInt(f.lastver1) \/ TruthyInt(f.lastver2)
    \/ TruthyInt(f.lastuserver) \/ TruthyInt(f.lastuserver2)
    \/ TruthyStr(f.lastvercond)

\* a grouping that compares nothing: every member switches version block
VersionChangedAlways(f, y, y_vercond) == TRUE

\* the version tuple of member y differs from the one of the previous member
VersionChanged(f, y, y_vercond) ==
    \/ f.lastver1 # y.ver1 \/ f.lastver2 # y.ver2
    \/ f.lastuserver # y.userver \/ f.lastuserver2 # y.userver2
    \/ f.lastvercond # y_vercond

\* "conditioning": the guard lines emitted in front of member y
GuardLines(f, y, y_cond, y_vercond) ==
    LET closecond == <<Ln("closecond", "};", -1)>>
        opencond  == <<LnX("ifcond", "", "if ( " \o y_cond \o " ) {", 1, y_cond, "")>>
        pieces    == VerPieces(y, y_vercond)
        verexpr   == JoinAnd(pieces)
    IN  IF f.action \in {ACTION_READ, ACTION_WRITE, ACTION_FIXLINKS}
        THEN IF VersionChanged(f, y, y_vercond)
             THEN LET lastcond1 == IF TruthyStr(f.lastcond) THEN NoneStr ELSE f.lastcond
                  IN     (IF CloseOldVersion(f) THEN <<Ln("closever", "};", -1)>> ELSE <<>>)
                      \o (IF TruthyStr(f.lastcond) THEN closecond ELSE <<>>)
                      \o (IF pieces # <<>>
                          THEN \* a single piece is one bracketed unit (scanBrackets)
                               IF Len(pieces) = 1
                               THEN <<LnX("ifver", "", "if " \o verexpr \o " {", 1, verexpr, "")>>
                               ELSE <<LnX("ifver", "", "if ( " \o verexpr \o " ) {", 1, verexpr, "")>>
                          ELSE <<>>)
                      \o (IF lastcond1 # y_cond /\ y_cond # "" THEN opencond ELSE <<>>)
             ELSE IF f.lastcond # y_cond
                  THEN (IF TruthyStr(f.lastcond) THEN closecond ELSE <<>>)
                    \o (IF y_cond # "" THEN opencond ELSE <<>>)
                  ELSE <<>>
        ELSE IF f.action = ACTION_OUT
        THEN IF f.lastcond # y_cond
             THEN (IF TruthyStr(f.lastcond) THEN closecond ELSE <<>>)
               \o (IF y_cond # "" THEN opencond ELSE <<>>)
             ELSE <<>>
        ELSE <<>>

TruncLines(stream) ==
    <<Ln("trunc", "if ( !verbose && ( array_output_count > MAXARRAYDUMP ) ) {", 1),
      Ln("trunc", stream \o " << \"<Data Truncated. Use verbose mode to see complete listing.>\" << endl;", 0),
      Ln("trunc", "break;", 0),
      Ln("trunc", "};", -1)>>

ForLine(ind, bound) ==
    LET I == "i" \o ToString(ind)
    IN  Ln("for", "for (unsigned int " \o I \o " = 0; " \o I \o " < " \o bound \o "; " \o I \o "++) {", 1)

\* a generator that resizes whatever the action
ResizesAlways(action) == TRUE

\* the container is resized by the function that reads it
Resizes(action) == action = ACTION_READ

\* "loop over arrays": the lines that open the loops of member y; ind is
\* CFile.indent when the first of them is emitted
LoopLines(f, y, ind, a1p, a2p) ==
    LET v == f.prefix \o y.cname
        stream == StreamName(f.action)
        I1 == "[i" \o ToString(ind) \o "]"
    IN  IF y.arr1.lhs = "" THEN <<>>
        ELSE   (IF f.action = ACTION_OUT THEN <<Ln("arrcount", "array_output_count = 0;", 0)>> ELSE <<>>)
            \o (IF ~isdigit(y.arr1.lhs)
                THEN (IF Resizes(f.action)
                      THEN <<LnX("resize", "", v \o ".resize(" \o ExprCode(y.arr1, a1p) \o ");", 0, y.cname, "")>>
                      ELSE <<>>)
                     \o <<ForLine(ind, v \o ".size()")>>
                ELSE <<ForLine(ind, ExprCode(y.arr1, a1p))>>)
            \o (IF f.action = ACTION_OUT THEN TruncLines(stream) ELSE <<>>)
            \o (IF y.arr2.lhs = "" THEN <<>>
                ELSE IF ~y.arr2_dynamic
                THEN IF ~isdigit(y.arr2.lhs)
                     THEN (IF Resizes(f.action)
                           THEN <<LnX("resize", "", v \o I1 \o ".resize(" \o ExprCode(y.arr2, a2p) \o ");", 0, y.cname, "")>>
                           ELSE <<>>)
                          \o <<ForLine(ind + 1, v \o I1 \o ".size()")>>
                     ELSE <<ForLine(ind + 1, ExprCode(y.arr2, a2p))>>
                ELSE (IF Resizes(f.action)
                      THEN <<LnX("resize", "", v \o I1 \o ".resize(" \o ExprCode(y.arr2, a2p) \o I1 \o ");", 0, y.cname, "")>>
                      ELSE <<>>)
                     \o <<ForLine(ind + 1, ExprCode(y.arr2, a2p) \o I1)>>)

\* the name z of the element the leaf statement works on
ElementName(f, y, ind) ==
    LET v == f.prefix \o y.cname
    IN  IF y.arr1.lhs = "" THEN v
        ELSE IF y.arr2.lhs = "" THEN v \o "[i" \o ToString(ind) \o "]"
        ELSE v \o "[i" \o ToString(ind) \o "][i" \o ToString(ind + 1) \o "]"

\* "%*s" % (n, "")
RECURSIVE Spaces(_)
Spaces(n) == IF n <= 0 THEN "" ELSE " " \o Spaces(n - 1)

\* a collector that takes duplicates too
CollectsAlways(y) == TRUE

\* GetRefs and GetPtrs collect a member once: "if not y.is_duplicate"
Collects(y) == ~y.is_duplicate

\* the statements for a member of a natively implemented type; ind is
\* CFile.indent when they are emitted
LeafLines(f, y, z, subblock, ind) ==
    LET stream == StreamName(f.action)
        a == f.action
    IN  IF a \in {ACTION_READ, ACTION_WRITE, ACTION_FIXLINKS, ACTION_GETREFS, ACTION_GETPTRS}
        THEN IF ~subblock.is_link /\ ~subblock.is_crossref
             THEN IF a \in {ACTION_READ, ACTION_WRITE} /\ ~y.is_abstract
                  THEN IF y.type = "bool" /\ y.arr1.lhs # ""
                       THEN <<Ln("leaf", "{", 1)>>
                            \o (IF a = ACTION_READ
                                THEN <<Ln("leaf", "bool tmp;", 0),
                                       LnX("leaf", "io", "NifStream( tmp, " \o stream \o ", info );", 0, y.cname, ""),
                                       Ln("leaf", z \o " = tmp;", 0)>>
                                ELSE <<Ln("leaf", "bool tmp = " \o z \o ";", 0),
                                       LnX("leaf", "io", "NifStream( tmp, " \o stream \o ", info );", 0, y.cname, "")>>)
                            \o <<Ln("leaf", "};", -1)>>
                       ELSE IF y.arg = ""
                       THEN <<LnX("leaf", "io", "NifStream( "
                                  \o (IF y.is_duplicate THEN "(" \o y.ctype \o "&)" ELSE "")
                                  \o z \o ", " \o stream \o ", info );", 0, y.cname, "")>>
                       ELSE <<LnX("leaf", "io", "NifStream( " \o z \o ", " \o stream \o ", info, "
                                  \o f.prefix \o y.carg \o " );", 0, y.cname, "")>>
                  ELSE <<>>
             ELSE CASE a = ACTION_READ ->
                         <<LnX("leaf", "io", "NifStream( block_num, " \o stream \o ", info );", 0, y.cname, ""),
                           LnX("leaf", "push", "link_stack.push_back( block_num );", 0, y.cname, "")>>
                    [] a = ACTION_WRITE ->
                         <<LnX("leaf", "io", "WriteRef( StaticCast<NiObject>(" \o z \o "), " \o stream
                                \o ", info, link_map, missing_link_stack );", 0, y.cname, "")>>
                    [] a = ACTION_FIXLINKS ->
                         <<LnX("leaf", "pop", z \o " = FixLink<" \o y.ctemplate
                                \o ">( objects, link_stack, missing_link_stack, info );", 0, y.cname, "")>>
                    [] a = ACTION_GETREFS /\ subblock.is_link /\ Collects(y) ->
                         <<LnX("leaf", "ref", "if ( " \o z \o " != NULL )\n\trefs.push_back(StaticCast<NiObject>("
                                \o z \o "));", 0, y.cname, "")>>
                    [] a = ACTION_GETPTRS /\ subblock.is_crossref /\ Collects(y) ->
                         <<LnX("leaf", "ptr", "if ( " \o z \o " != NULL )\n\tptrs.push_back((NiObject *)("
                                \o z \o "));", 0, y.cname, "")>>
                    [] OTHER -> <<>>
        ELSE \* ACTION_OUT
             IF y.arr1.lhs = ""
             THEN <<LnX("leaf", "dump", stream \o " << \"" \o Spaces(2 * ind) \o y.name \o ":  \" << " \o z \o " << endl;", 0, y.cname, "")>>
             ELSE <<Ln("trunc", "if ( !verbose && ( array_output_count > MAXARRAYDUMP ) ) {", 1),
                    Ln("trunc", "break;", 0),
                    Ln("trunc", "};", -1),
                    LnX("leaf", "dump", stream \o " << \"" \o Spaces(2 * ind) \o y.name \o "[\" << i" \o ToString(ind - 1)
                          \o " << \"]:  \" << " \o z \o " << endl;", 0, y.cname, ""),
                    Ln("arrcount", "array_output_count++;", 0)>>

\* "check for links": the type of the member contains no links
AdvanceTop(f) == SetTop([f EXCEPT !.idx = f.idx + 1])

\* one iteration of "for y in block.members", from the type lookup to the
\* leaf statement or to the recursive call for a compound member
FieldBegin ==
    /\ pc = "stream"
    /\ Top.phase = "fields"
    /\ Top.idx <= Len(FrameType(Top).members)
    /\ LET f  == Top
           ms == FrameType(f).members
           y0 == ms[f.idx]
           types == DOMAIN basic_types \cup DOMAIN compound_types
           \* subblock keeps the type object of an earlier member when the
           \* type of this one is in no table, and is unbound when there is none
           prev  == {j \in 1..(f.idx - 1) : ms[j].type \in types}
           bound == y0.type \in types \/ prev # {}
           stype == IF y0.type \in types THEN y0.type
                    ELSE ms[CHOOSE j \in prev : \A k \in prev : k <= j].type
           subblock == IF stype \in DOMAIN basic_types
                       THEN basic_types[stype] ELSE compound_types[stype]
           anyref == y0.arr1.lhs # "" \/ y0.arr2.lhs # "" \/ y0.cond.lhs # "" \/ y0.arg # ""
           has(n) == anyref /\ \E i \in 1..Len(ms) : ms[i].name = n
           y_arg  == IF has(y0.arg) THEN <<ms[find_member(ms, y0.arg)]>> ELSE <<>>
           y_arg_prefix == IF y_arg # <<>> THEN f.prefix ELSE ""
           usesARG == y0.arr1.lhs = "ARG" \/ y0.arr2.lhs = "ARG" \/ y0.cond.lhs = "ARG"
           argname == IF f.arg_member # <<>> THEN f.arg_member[1].name ELSE ""
           y == [y0 EXCEPT !.arr1.lhs = IF @ = "ARG" THEN argname ELSE @,
                           !.arr2.lhs = IF @ = "ARG" THEN argname ELSE @,
                           !.cond.lhs = IF @ = "ARG" THEN argname ELSE @]
           a1p == IF y0.arr1.lhs = "ARG" THEN f.arg_prefix
                  ELSE IF has(y0.arr1.lhs) THEN f.prefix ELSE ""
           a2p == IF y0.arr2.lhs = "ARG" THEN f.arg_prefix
                  ELSE IF has(y0.arr2.lhs) THEN f.prefix ELSE ""
           cp  == IF y0.cond.lhs = "ARG" THEN f.arg_prefix
                  ELSE IF has(y0.cond.lhs) THEN f.prefix ELSE ""
           y_cond    == ExprCode(y.cond, cp)
           y_vercond == ExprCode(y.vercond, "info.")
           G    == GuardLines(f, y, y_cond, y_vercond)
           ind1 == indent + Delta(G)
           Lp   == LoopLines(f, y, ind1, a1p, a2p)
           ind2 == ind1 + Delta(Lp)
           z    == ElementName(f, y, ind1)
           native == y.type \in DOMAIN basic_types /\ basic_types[y.type].nativetype # ""
           leaf == LeafLines(f, y, z, subblock, ind2)
           f1   == [f EXCEPT !.phase = "fieldend", !.y_cond = y_cond, !.y_vercond = y_vercond]
       IN  IF f.action \in {ACTION_FIXLINKS, ACTION_GETREFS, ACTION_GETPTRS} /\ ~bound
           THEN \* subblock is unbound
                /\ pc' = "abort"
                /\ UNCHANGED <<stack, out, indent, ncalls, skipped, block_types, compound_types>>
           ELSE IF /\ f.action \in {ACTION_FIXLINKS, ACTION_GETREFS, ACTION_GETPTRS}
                   /\ ~subblock.has_links /\ ~subblock.has_crossrefs
           THEN \* contains no links, so skip this member
                /\ skipped' = skipped \cup {<<f.id, f.idx>>}
                /\ stack' = AdvanceTop(f)
                /\ UNCHANGED <<pc, out, indent, ncalls, block_types, compound_types>>
           ELSE IF f.action = ACTION_OUT /\ y0.is_duplicate
           THEN \* don't write variables twice
                /\ stack' = AdvanceTop(f)
                /\ UNCHANGED <<pc, out, indent, ncalls, skipped, block_types, compound_types>>
           ELSE IF usesARG /\ f.arg_member = <<>>
           THEN \* arg_member is None
                /\ pc' = "abort"
                /\ UNCHANGED <<stack, out, indent, ncalls, skipped, block_types, compound_types>>
           ELSE IF native
           THEN /\ out' = out \o Tag(G \o Lp \o leaf, f.id, f.idx)
                /\ indent' = ind2 + Delta(leaf)
                /\ SetMembers(f, [ms EXCEPT ![f.idx] = y])
                /\ stack' = SetTop(f1)
                /\ UNCHANGED <<pc, ncalls, skipped>>
           ELSE IF y.type \notin DOMAIN compound_types
           THEN /\ out' = out \o Tag(G \o Lp, f.id, f.idx)
                /\ indent' = ind2
                /\ SetMembers(f, [ms EXCEPT ![f.idx] = y])
                /\ pc' = "abort"
                /\ UNCHANGED <<stack, ncalls, skipped>>
           ELSE IF Len(stack) >= MaxDepth
           THEN \* the nested call exceeds the recursion limit
                /\ out' = out \o Tag(G \o Lp, f.id, f.idx)
                /\ indent' = ind2
                /\ SetMembers(f, [ms EXCEPT ![f.idx] = y])
                /\ pc' = "abort"
                /\ UNCHANGED <<stack, ncalls, skipped>>
           ELSE /\ out' = out \o Tag(G \o Lp, f.id, f.idx)
                /\ indent' = ind2
                /\ SetMembers(f, [ms EXCEPT ![f.idx] = y])
                /\ ncalls' = ncalls + 1
                /\ stack' = Append(SetTop(f1),
                       NewFrame(ncalls + 1, y.type, FALSE, f.action,
                                f.localprefix \o y.cname \o "_", z \o ".", y_arg_prefix, y_arg))
                /\ UNCHANGED <<pc, skipped>>
    /\ UNCHANGED <<doc, loadpos, basic_types, gen>>
    /\ UNCHANGED <<expr, file>>

\* the end of the iteration: close the array loops, remember the guards
FieldEnd ==
    /\ pc = "stream"
    /\ Top.phase = "fieldend"
    /\ LET f == Top
           y == FrameType(f).members[f.idx]
           closes == IF y.arr1.lhs = "" THEN <<>>
                     ELSE <<Ln("closeloop", "};", -1)>>
                          \o (IF y.arr2.lhs = "" THEN <<>> ELSE <<Ln("closeloop", "};", -1)>>)
       IN  /\ out' = out \o Tag(closes, f.id, f.idx)
           /\ indent' = indent + Delta(closes)
           /\ stack' = SetTop([f EXCEPT !.phase = "fields", !.idx = f.idx + 1,
                                 !.lastver1 = y.ver1, !.lastver2 = y.ver2,
                                 !.lastuserver = y.userver, !.lastuserver2 = y.userver2,
                                 !.lastcond = f.y_cond, !.lastvercond = f.y_vercond])
    /\ UNCHANGED <<doc, loadpos, basic_types, compound_types, block_types, pc, ncalls, skipped, gen>>
    /\ UNCHANGED <<expr, file>>

\* the version guard still open after the last member is closed
CloseLastVersion(f) ==
    \/ TruthyInt(f.lastver1) \/ TruthyInt(f.lastver2)
    \/ f.lastuserver # NoneVal \/ f.lastuserver2 # NoneVal
    \/ TruthyStr(f.lastvercond)

\* stream, after the loop over the members
StreamTail(f) ==
    LET b == FrameType(f)
    IN     (IF f.action \in {ACTION_READ, ACTION_WRITE, ACTION_FIXLINKS} /\ CloseLastVersion(f)
            THEN <<Ln("endver", "};", -1)>> ELSE <<>>)
        \o (IF f.action \in {ACTION_READ, ACTION_WRITE, ACTION_FIXLINKS, ACTION_OUT} /\ TruthyStr(f.lastcond)
            THEN <<Ln("endcond", "};", -1)>> ELSE <<>>)
        \o (IF f.isblock \/ b.name \in {"Header", "Footer"}
            THEN CASE f.action = ACTION_OUT     -> <<Ln("return", "return out.str();", 0)>>
                   [] f.action = ACTION_GETREFS -> <<Ln("return", "return refs;", 0)>>
                   [] f.action = ACTION_GETPTRS -> <<Ln("return", "return ptrs;", 0)>>
                   [] OTHER -> <<>>
            ELSE <<>>)

StreamEnd ==
    /\ pc = "stream"
    /\ Top.phase = "fields"
    /\ Top.idx > Len(FrameType(Top).members)
    /\ LET f == Top
           lines == StreamTail(f)
       IN  /\ out' = out \o Tag(lines, f.id, Len(FrameType(f).members) + 1)
           /\ indent' = indent + Delta(lines)
           /\ stack' = SubSeq(stack, 1, Len(stack) - 1)
           /\ pc' = IF Len(stack) = 1 THEN "idle" ELSE pc
    /\ UNCHANGED <<doc, loadpos, basic_types, compound_types, block_types, ncalls, skipped, gen>>
    /\ UNCHANGED <<expr, file>>

-----------------------------------------------------------------------------
\* Declarations and constructors

\* a declare that skips no member
DeclareSkipsNone(m) == FALSE

\* declare leaves out a member
DeclareSkips(m) == m.is_duplicate

\* member_code_declare
code_declare(m) ==
    LET keyword == IF ~m.is_duplicate
                      /\ \/ m.arr1_ref # <<>> /\ m.arr1.lhs = ""
                         \/ m.arr1_ref = <<>> /\ m.arr2_ref # <<>>
                         \/ m.arr1_ref = <<>> /\ m.arr2_ref = <<>> /\ m.is_calculated
                   THEN "mutable " ELSE ""
        base == IF m.ctemplate = "" THEN m.ctype
                ELSE IF m.ctype # "*" THEN m.ctype \o "<" \o m.ctemplate \o " >"
                ELSE m.ctemplate \o " *"
        a1 == m.arr1.lhs
        a2 == m.arr2.lhs
        result == IF a1 = "" THEN base
                  ELSE IF isdigit(a1)
                  THEN IF a2 # "" /\ isdigit(a2)
                       THEN "Niflib::NifArray< " \o a1 \o ", Niflib::NifArray<" \o a2 \o "," \o base \o " > >"
                       ELSE "Niflib::NifArray<" \o a1 \o "," \o base \o " >"
                  ELSE IF a2 # "" /\ isdigit(a2) THEN "vector< Niflib::NifArray<" \o a2 \o "," \o base \o " > >"
                  ELSE IF a2 # "" THEN "vector< vector<" \o base \o " > >"
                  ELSE "vector<" \o base \o " >"
    IN  keyword \o result \o " " \o m.cname \o ";"

\* CFile.declare: the declarations of the members of a type from member i on
\* (the comment lines carry no code and are left out); prot_mode is the
\* access section the class is in
RECURSIVE DeclareFrom(_, _, _, _)
DeclareFrom(ms, isblock, i, prot_mode) ==
    IF i > Len(ms) THEN <<>>
    ELSE LET m == ms[i]
             topublic == isblock /\ m.is_public /\ prot_mode
             toprot   == isblock /\ ~m.is_public /\ ~prot_mode
             mode1    == IF topublic THEN FALSE ELSE IF toprot THEN TRUE ELSE prot_mode
         IN  IF DeclareSkips(m) THEN DeclareFrom(ms, isblock, i + 1, prot_mode)
             ELSE   (IF topublic THEN <<Ln("access", "public:", 0)>>
                     ELSE IF toprot THEN <<Ln("access", "protected:", 0)>> ELSE <<>>)
                 \o Tag(<<LnX("declare", "", code_declare(m), 0, m.cname, m.name)>>, 0, i)
                 \o (IF m.func # ""
                     THEN Tag(<<LnX("getter", "", m.ctype \o " " \o m.func \o "() const;", 0, m.cname, m.name)>>, 0, i)
                     ELSE <<>>)
                 \o DeclareFrom(ms, isblock, i + 1, mode1)

DeclareLines(b, isblock) == DeclareFrom(b.members, isblock, 1, TRUE)

\* Member.code_construct: the initializer of a member, none for a member
\* without default or a duplicate
member_code_construct(m) ==
    IF m.default # "" /\ ~m.is_duplicate
    THEN <<LnX("construct", "", m.cname \o "(" \o m.default \o ")", 0, m.cname, m.name)>>
    ELSE <<>>

\* Compound.code_construct: the initializer list
ConstructLines(b) ==
    Flatten([i \in 1..Len(b.members) |-> Tag(member_code_construct(b.members[i]), 0, i)])

\* HDR.declare(x) for a compound or a block
Declare ==
    /\ pc = "idle"
    /\ \E isblock \in BOOLEAN :
         \E n \in (IF isblock THEN DOMAIN block_types ELSE DOMAIN compound_types) :
            LET b == IF isblock THEN block_types[n] ELSE compound_types[n]
            IN  /\ out' = DeclareLines(b, isblock)
                /\ gen' = [what |-> "declare", isblock |-> isblock, name |-> n, action |-> NoneVal]
    /\ indent' = 1
    /\ ncalls' = 0
    /\ skipped' = {}
    /\ UNCHANGED <<doc, loadpos, basic_types, compound_types, block_types, pc, stack>>
    /\ UNCHANGED <<expr, file>>

\* x.code_construct() for a compound or a block
CodeConstruct ==
    /\ pc = "idle"
    /\ \E isblock \in BOOLEAN :
         \E n \in (IF isblock THEN DOMAIN block_types ELSE DOMAIN compound_types) :
            LET b == IF isblock THEN block_types[n] ELSE compound_types[n]
            IN  /\ out' = ConstructLines(b)
                /\ gen' = [what |-> "construct", isblock |-> isblock, name |-> n, action |-> NoneVal]
    /\ indent' = 0
    /\ ncalls' = 0
    /\ skipped' = {}
    /\ UNCHANGED <<doc, loadpos, basic_types, compound_types, block_types, pc, stack>>
    /\ UNCHANGED <<expr, file>>

Next ==
    \/ LoadBasic
    \/ LoadCompound
    \/ LoadBlock
    \/ PatchManualUpdate
    \/ Generate
    \/ StreamBegin
    \/ ComputePass
    \/ FieldBegin
    \/ FieldEnd
    \/ StreamEnd
    \/ Declare
    \/ CodeConstruct

-----------------------------------------------------------------------------
\* nifxml.Expression.  A Python string is the sequence of its characters;
\* positions are Python's (the first character is at position 0).

Chr(s, p) == s[p + 1]

\* s[i:j]
Slice(s, i, j) == SubSeq(s, i + 1, IF j > Len(s) THEN Len(s) ELSE j)

Has(s, ch) == \E p \in 0..(Len(s) - 1) : Chr(s, p) = ch

RECURSIVE lstrip(_, _)
lstrip(s, chars) == IF s # <<>> /\ Head(s) \in chars THEN lstrip(Tail(s), chars) ELSE s

RECURSIVE rstrip(_)
rstrip(s) == IF s # <<>> /\ s[Len(s)] = " " THEN rstrip(SubSeq(s, 1, Len(s) - 1)) ELSE s

strip(s) == rstrip(lstrip(s, {" "}))

Digits == {"0", "1", "2", "3", "4", "5", "6", "7", "8", "9"}

operators ==
    {<<"=", "=">>, <<"!", "=">>, <<">", "=">>, <<"<", "=">>, <<"&", "&">>, <<"|", "|">>,
     <<"&">>, <<"|">>, <<"-">>, <<"+">>, <<">">>, <<"<">>, <<"/">>, <<"*">>}

\* _scanBrackets: the loop from scanpos on; the result is the pair it
\* returns, or raised when the loop runs out with a bracket still open
RECURSIVE ScanFrom(_, _, _, _)
ScanFrom(s, scanpos, startpos, scandepth) ==
    IF scanpos >= Len(s)
    THEN [raised |-> startpos # -1, startpos |-> startpos, endpos |-> -1]
    ELSE IF Chr(s, scanpos) = "("
         THEN ScanFrom(s, scanpos + 1, IF startpos = -1 THEN scanpos ELSE startpos, scandepth + 1)
         ELSE IF Chr(s, scanpos) = ")"
              THEN IF scandepth - 1 = 0
                   THEN [raised |-> FALSE, startpos |-> startpos, endpos |-> scanpos]
                   ELSE ScanFrom(s, scanpos + 1, startpos, scandepth - 1)
              ELSE ScanFrom(s, scanpos + 1, startpos, scandepth)

_scanBrackets(s) == ScanFrom(s, 0, -1, 0)

\* `for op_endpos in range(op_startpos+1, op_startpos-1, -1)`: the end of
\* the operator that starts at p, two characters tried before one; -1 when
\* the loop finds none
OpEnd(s, p) ==
    IF Slice(s, p, p + 2) \in operators THEN p + 1
    ELSE IF Slice(s, p, p + 1) \in operators THEN p
    ELSE -1

\* the scan for the first operator of a text without an opening bracket
RECURSIVE OpScan(_, _)
OpScan(s, p) ==
    IF p >= Len(s) THEN [raised |-> FALSE, found |-> FALSE, startpos |-> -1]
    ELSE IF Chr(s, p) = " " THEN OpScan(s, p + 1)
    ELSE IF Chr(s, p) \in {"(", ")"} THEN [raised |-> TRUE, found |-> FALSE, startpos |-> p]
    ELSE IF OpEnd(s, p) # -1 THEN [raised |-> FALSE, found |-> TRUE, startpos |-> p]
    ELSE OpScan(s, p + 1)

RECURSIVE SkipSpaces(_, _)
SkipSpaces(s, p) == IF p < Len(s) /\ Chr(s, p) = " " THEN SkipSpaces(s, p + 1) ELSE p

\* what _partition returns: the triple, `unary` when the right side is
\* None, or raised.  src and at are not part of the result: they name the
\* text that was split (the bracketed left side when _partition recursed
\* into it) and the position of the operator in it.
Triple(l, o, r, src, at) ==
    [raised |-> FALSE, left |-> l, op |-> o, right |-> r, unary |-> FALSE, src |-> src, at |-> at]
PartitionRaised(src) ==
    [raised |-> TRUE, left |-> <<>>, op |-> <<>>, right |-> <<>>, unary |-> FALSE, src |-> src, at |-> -1]

RECURSIVE _partition(_)
_partition(s) ==
    IF strip(s) # <<>> /\ Head(strip(s)) = "!"
    THEN [Triple(lstrip(s, {" ", "!"}), <<"!">>, <<>>, s, -1) EXCEPT !.unary = TRUE]
    ELSE LET b == _scanBrackets(s)
         IN  IF b.raised THEN PartitionRaised(s)
             ELSE IF b.startpos >= 0
             THEN LET left_str    == strip(Slice(s, b.startpos + 1, b.endpos))
                      op_startpos == SkipSpaces(s, b.endpos + 1)
                      op_endpos   == OpEnd(s, op_startpos)
                  IN  IF op_startpos < Len(s)
                      THEN IF op_endpos = -1 THEN PartitionRaised(s)
                           ELSE Triple(left_str, Slice(s, op_startpos, op_endpos + 1),
                                       strip(Slice(s, op_endpos + 1, Len(s))), s, op_startpos)
                      ELSE _partition(left_str)
             ELSE LET o         == OpScan(s, 0)
                      op_endpos == OpEnd(s, o.startpos)
                  IN  IF o.raised THEN PartitionRaised(s)
                      ELSE IF ~o.found THEN Triple(strip(s), <<>>, <<>>, s, -1)
                      ELSE Triple(strip(Slice(s, 0, o.startpos)), Slice(s, o.startpos, op_endpos + 1),
                                  strip(Slice(s, op_endpos + 1, Len(s))), s, o.startpos)

\* `expr_str.find(op) != -1` for some op of operators
FindsOperator(s) == \E p \in 0..(Len(s) - 1) : OpEnd(s, p) # -1

\* int(expr_str) succeeds
IsInt(s) == strip(s) # <<>> /\ \A p \in 0..(Len(strip(s)) - 1) : Chr(strip(s), p) \in Digits

\* str(int(expr_str)): no leading zeros
RECURSIVE StrInt(_)
StrInt(s) == IF Len(s) > 1 /\ Head(s) = "0" THEN StrInt(Tail(s)) ELSE s

\* a terminal (a Python str), an Expression object, or the ValueError raised
Terminal(v) == [t |-> "str", v |-> v]
Raised == [t |-> "ValueError"]

\* Expression(expr_str): __init__
RECURSIVE Expression(_), _parse(_)
Expression(s) ==
    LET p == _partition(s)
    IN  IF p.raised THEN Raised
        ELSE LET _left  == _parse(p.left)
                 _right == IF ~p.unary /\ p.right # <<>> THEN _parse(p.right) ELSE Terminal(<<>>)
             IN  IF _left.t = "ValueError" \/ _right.t = "ValueError" THEN Raised
                 ELSE [t |-> "Expression", _left |-> _left, _op |-> p.op, _right |-> _right]

\* the tail of _parse.  No input holds a version string (four dotted
\* numbers), so the mver branch is never taken; a text that starts with a
\* digit and that int() rejects is returned as a name.
ParseTerminal(s) ==
    IF s # <<>> /\ Head(s) \in Digits /\ IsInt(s) THEN Terminal(StrInt(strip(s))) ELSE Terminal(s)

\* _parse without the test for a closing bracket
_parseOpening(s) ==
    IF Has(s, "(") \/ FindsOperator(s) THEN Expression(s) ELSE ParseTerminal(s)

_parse(s) ==
    IF Has(s, "(") \/ Has(s, ")") \/ FindsOperator(s) THEN Expression(s) ELSE ParseTerminal(s)

RECURSIVE get_terminals(_)
get_terminals(e) ==
    LET side(x) == IF x.t = "Expression" THEN get_terminals(x)
                   ELSE IF x.v # <<>> THEN <<x.v>> ELSE <<>>
    IN  side(e._left) \o side(e._right)

\* Python values: an int (den = 1), the float num/den that `/` produces, or
\* the exception raised (k names it)
IntVal(n) == [k |-> "int", num |-> n, den |-> 1]
FloatVal(n, d) == IF d < 0 THEN [k |-> "float", num |-> -n, den |-> -d] ELSE [k |-> "float", num |-> n, den |-> d]
Raise(e) == [k |-> e, num |-> 0, den |-> 1]
IsValue(v) == v.k \in {"int", "float"}

\* int(v)
Trunc(v) == IF v.num >= 0 THEN v.num \div v.den ELSE -((-v.num) \div v.den)

\* & and | of Python ints (two's complement of unbounded width)
RECURSIVE BitAnd(_, _)
BitAnd(a, b) ==
    IF a = 0 \/ b = 0 THEN 0
    ELSE IF a = -1 THEN b
    ELSE IF b = -1 THEN a
    ELSE (a % 2) * (b % 2) + 2 * BitAnd(a \div 2, b \div 2)

RECURSIVE BitOr(_, _)
BitOr(a, b) ==
    IF a = 0 THEN b
    ELSE IF b = 0 THEN a
    ELSE IF a = -1 \/ b = -1 THEN -1
    ELSE (IF a % 2 = 1 \/ b % 2 = 1 THEN 1 ELSE 0) + 2 * BitOr(a \div 2, b \div 2)

Bool(b) == IntVal(IF b THEN 1 ELSE 0)

Arith(l, r, n, d) == IF l.k = "int" /\ r.k = "int" THEN IntVal(n) ELSE FloatVal(n, d)

\* the if/elif chain of eval on the values of the two sides
ApplyOp(op, l, r) ==
    CASE op = <<"=", "=">> -> Bool(l.num * r.den = r.num * l.den)
      [] op = <<"!", "=">> -> Bool(l.num * r.den # r.num * l.den)
      [] op = <<">", "=">> -> Bool(l.num * r.den >= r.num * l.den)
      [] op = <<"<", "=">> -> Bool(l.num * r.den <= r.num * l.den)
      [] op = <<"&", "&">> -> IntVal(IF l.num = 0 THEN Trunc(l) ELSE Trunc(r))
      [] op = <<"|", "|">> -> IntVal(IF l.num # 0 THEN Trunc(l) ELSE Trunc(r))
      [] op = <<"&">> -> IF l.k = "int" /\ r.k = "int" THEN IntVal(BitAnd(l.num, r.num)) ELSE Raise("TypeError")
      [] op = <<"|">> -> IF l.k = "int" /\ r.k = "int" THEN IntVal(BitOr(l.num, r.num)) ELSE Raise("TypeError")
      [] op = <<"-">> -> Arith(l, r, l.num * r.den - r.num * l.den, l.den * r.den)
      [] op = <<"+">> -> Arith(l, r, l.num * r.den + r.num * l.den, l.den * r.den)
      [] op = <<"/">> -> IF r.num = 0 THEN Raise("ZeroDivisionError") ELSE FloatVal(l.num * r.den, l.den * r.num)
      [] op = <<"*">> -> Arith(l, r, l.num * r.num, l.den * r.den)
      [] op = <<"!">> -> Bool(l.num = 0)
      [] OTHER -> Raise("NotImplementedError")

\* the object handed to eval: None, or an object with integer attributes
NoData == [none |-> TRUE, attrs |-> <<>>]
Object(attrs) == [none |-> FALSE, attrs |-> attrs]

getattr(data, name) ==
    IF data.none \/ name \notin DOMAIN data.attrs THEN Raise("AttributeError") ELSE IntVal(data.attrs[name])

\* Expression.eval.  Every side that is not an Expression is a str (_parse
\* returns no int), and no input holds the text '""'.
RECURSIVE eval(_, _)
eval(e, data) ==
    LET side(x) == IF x.t = "Expression" THEN eval(x, data) ELSE getattr(data, x.v)
        left    == side(e._left)
        right   == side(e._right)
    IN  IF ~IsValue(left) THEN left
        ELSE IF e._op = <<>> THEN left
        ELSE IF ~IsValue(right) THEN right
        ELSE ApplyOp(e._op, left, right)

\* Expression(expr_str), with the triple that _partition returns for it
NewExpression ==
    /\ expr.at = "input"
    /\ LET tree == Expression(expr.s)
       IN  expr' = [at   |-> IF tree = Raised THEN "raised" ELSE "built",
                    s    |-> expr.s,
                    data |-> expr.data,
                    part |-> _partition(expr.s),
                    tree |-> tree]
    /\ UNCHANGED <<file>>
    /\ UNCHANGED progvars

\* e.eval(data)
Eval ==
    /\ expr.at = "built"
    /\ expr' = [at    |-> "done",
                s     |-> expr.s,
                data  |-> expr.data,
                part  |-> expr.part,
                tree  |-> expr.tree,
                value |-> eval(expr.tree, expr.data)]
    /\ UNCHANGED <<file>>
    /\ UNCHANGED progvars

NextExpr ==
    \/ NewExpression
    \/ Eval


-----------------------------------------------------------------------------
\* Custom code sections (gen_niflib.extract_custom_code and the writing of a
\* NiObject implementation file).  A line of a file is the sequence of its
\* pieces of text, a sentinel comment or other text, and whether a newline
\* ends it; only the last line of a file can lack the newline.

END_CUSTOM == "//--END CUSTOM CODE--//"

\* the BEG_* comments in the order of the if/elif chain, each with the name
\* the chain gives its section
Sentinels ==
    <<<<"//--BEGIN MISC CUSTOM CODE--//", "MISC">>,
      <<"//--BEGIN FILE HEAD CUSTOM CODE--//", "FILE HEAD">>,
      <<"//--BEGIN FILE FOOT CUSTOM CODE--//", "FILE FOOT">>,
      <<"//--BEGIN PRE-READ CUSTOM CODE--//", "PRE-READ">>,
      <<"//--BEGIN POST-READ CUSTOM CODE--//", "POST-READ">>,
      <<"//--BEGIN PRE-WRITE CUSTOM CODE--//", "PRE-WRITE">>,
      <<"//--BEGIN POST-WRITE CUSTOM CODE--//", "POST-WRITE">>,
      <<"//--BEGIN PRE-STRING CUSTOM CODE--//", "PRE-STRING">>,
      <<"//--BEGIN POST-STRING CUSTOM CODE--//", "POST-STRING">>,
      <<"//--BEGIN PRE-FIXLINKS CUSTOM CODE--//", "PRE-FIXLINKS">>,
      <<"//--BEGIN POST-FIXLINKS CUSTOM CODE--//", "POST-FIXLINKS">>,
      <<"//--BEGIN CONSTRUCTOR CUSTOM CODE--//", "CONSTRUCTOR">>,
      <<"//--BEGIN DESTRUCTOR CUSTOM CODE--//", "DESTRUCTOR">>,
      <<"//--BEGIN INCLUDE CUSTOM CODE--//", "INCLUDE">>>>

\* the keys of the dictionary `custom`
CustomKeys ==
    {"MISC", "FILE HEAD", "FILE FOOT", "PRE-READ", "POST-READ", "PRE-WRITE", "POST-WRITE",
     "PRE-STRING", "POST-STRING", "PRE-FIXLINKS", "POST-FIXLINKS", "CONSTRUCTOR", "DESTRUCTOR"}

TextLine(t) == [toks |-> <<t>>, eol |-> TRUE]
Newline == [toks |-> <<>>, eol |-> TRUE]

\* cln.find(text) != -1
Finds(cln, text) == \E i \in 1..Len(cln.toks) : cln.toks[i] = text

\* the branch of the if/elif chain that cln takes, 0 when it takes none
Branch(cln) ==
    IF \E b \in 1..Len(Sentinels) : Finds(cln, Sentinels[b][1])
    THEN CHOOSE b \in 1..Len(Sentinels) :
            /\ Finds(cln, Sentinels[b][1])
            /\ \A a \in 1..(b - 1) : ~Finds(cln, Sentinels[a][1])
    ELSE 0

\* the variant puts the line in front of the section
CaptureFirst(custom, name, cln) == [custom EXCEPT ![name] = <<cln>> \o @]

\* custom[custom_name].append(cln)
Capture(custom, name, cln) == [custom EXCEPT ![name] = Append(@, cln)]

\* the loop over the lines of the file; raised is the KeyError of
\* custom[custom_name] for a name that is no key
RECURSIVE ExtractFrom(_, _, _, _, _)
ExtractFrom(lines, i, custom, custom_flag, custom_name) ==
    IF i > Len(lines) THEN [raised |-> FALSE, custom |-> custom]
    ELSE LET cln    == lines[i]
             ends   == custom_flag /\ Finds(cln, END_CUSTOM)
             keeps  == custom_flag /\ ~Finds(cln, END_CUSTOM)
             custom1 == IF keeps /\ custom_name \in DOMAIN custom THEN Capture(custom, custom_name, cln) ELSE custom
             b      == Branch(cln)
         IN  IF keeps /\ custom_name \notin DOMAIN custom
             THEN [raised |-> TRUE, custom |-> custom]
             ELSE ExtractFrom(lines, i + 1, custom1,
                              IF b # 0 THEN TRUE ELSE custom_flag /\ ~ends,
                              IF b # 0 THEN Sentinels[b][2] ELSE custom_name)

\* a file name with no file behind it
NoFile == [exists |-> FALSE, lines |-> <<>>]
File(lines) == [exists |-> TRUE, lines |-> lines]

extract_custom_code(f) ==
    IF ~f.exists THEN [raised |-> FALSE, custom |-> [k \in CustomKeys |-> <<Newline>>]]
    ELSE ExtractFrom(f.lines, 1, [k \in CustomKeys |-> <<>>], FALSE, "")

\* the text written to a file, cut into lines again: a piece without
\* newline runs into the piece written after it
RECURSIVE readlines(_)
readlines(written) ==
    IF Len(written) < 2 THEN written
    ELSE IF written[1].eol THEN <<written[1]>> \o readlines(Tail(written))
    ELSE readlines(<<[toks |-> written[1].toks \o written[2].toks, eol |-> written[2].eol]>> \o Tail(Tail(written)))

\* the sections of a NiObject implementation file, in the order written
BlockSections ==
    <<"FILE HEAD", "CONSTRUCTOR", "DESTRUCTOR", "PRE-READ", "POST-READ", "PRE-WRITE", "POST-WRITE",
      "PRE-STRING", "POST-STRING", "PRE-FIXLINKS", "POST-FIXLINKS", "MISC">>

BeginOf(k) == Sentinels[CHOOSE b \in 1..Len(Sentinels) : Sentinels[b][2] = k][1]

\* CPP.code(BEG_...); for line in custom_lines[...]: CPP.write(line); CPP.code(END_CUSTOM)
Section(custom, k) == <<TextLine(BeginOf(k))>> \o custom[k] \o <<TextLine(END_CUSTOM)>>

\* the generated code that stands before each section and after the last
GeneratedCode == TextLine("code")

RECURSIVE WriteSections(_, _)
WriteSections(custom, n) ==
    IF n > Len(BlockSections) THEN <<GeneratedCode>>
    ELSE <<GeneratedCode>> \o Section(custom, BlockSections[n]) \o WriteSections(custom, n + 1)

\* custom_lines = extract_custom_code(file_name)
ExtractCustomCode ==
    /\ file.at \in {"start", "written"}
    /\ file.runs < 2
    /\ LET r == extract_custom_code(file.disk)
       IN  file' = [file EXCEPT !.at = IF r.raised THEN "raised" ELSE "extracted",
                                !.custom = r.custom,
                                !.before = file.custom]
    /\ UNCHANGED <<expr>>
    /\ UNCHANGED progvars

\* a generator that opens the file for writing first and reads the sections
\* from the file it has just emptied
WriteTruncated ==
    /\ file.at = "start"
    /\ LET custom == extract_custom_code(File(<<>>)).custom
       IN  file' = [file EXCEPT !.at = "written",
                                !.custom = custom,
                                !.disk = File(readlines(WriteSections(custom, 1))),
                                !.old = file.disk,
                                !.runs = @ + 1]
    /\ UNCHANGED <<expr>>
    /\ UNCHANGED progvars

\* CPP = CFile(io.open(file_name, 'wb')) and all that is written to it
WriteFile ==
    /\ file.at = "extracted"
    /\ file' = [file EXCEPT !.at = "written",
                            !.disk = File(readlines(WriteSections(file.custom, 1))),
                            !.old = file.disk,
                            !.runs = @ + 1]
    /\ UNCHANGED <<expr>>
    /\ UNCHANGED progvars

NextCustom ==
    \/ ExtractCustomCode
    \/ WriteFile

-----------------------------------------------------------------------------
\* Documents

Lists(S, n) == UNION {[1..k -> S] : k \in 1..n}

V10 == 167772416   \* version2number("10.0.1.0")
V20 == 335544324   \* version2number("20.0.0.4")

\* the block the manual update patch names: a count and the array it sizes
KeyframeData ==
    [name |-> MANUAL_BLOCK, inherit |-> "",
     adds |-> <<Add(MANUAL_MEMBER, "", "int", NoExpr, NoExpr, NoneVal, NoneVal, NoExpr),
                Add("Rotation Keys", "", "int", Expr(MANUAL_MEMBER, "", ""), NoExpr, NoneVal, NoneVal, NoExpr)>>]

\* a compound with one reference
LinkCompound ==
    [name |-> "Inner",
     adds |-> <<Add("Link", "", "Ref", NoExpr, NoExpr, NoneVal, NoneVal, NoExpr)>>]

DocOf(compounds, adds) ==
    [basic    |-> <<"int", "Ref", "Ptr">>,
     compound |-> compounds,
     niobject |-> <<KeyframeData, [name |-> "T", inherit |-> MANUAL_BLOCK, adds |-> adds]>>]

InitProgram(docs) ==
    /\ doc \in docs
    /\ loadpos = 0
    /\ basic_types = <<>>
    /\ compound_types = <<>>
    /\ block_types = <<>>
    /\ pc = "load"
    /\ stack = <<>>
    /\ out = <<>>
    /\ indent = 0
    /\ ncalls = 0
    /\ skipped = {}
    /\ gen = [what |-> "none", isblock |-> FALSE, name |-> "", action |-> NoneVal]

\* the generator runs with no expression and no file in hand
InitOf(docs) ==
    /\ InitProgram(docs)
    /\ expr = [at |-> "none"]
    /\ file = [at |-> "none"]

\* fields that differ in version metadata and presence condition
GuardFields ==
    {Add("Data", "", "Ref", NoExpr, c, v[1], v[2], NoExpr) :
        c \in {NoExpr, Expr("Has Data", "", "")},
        v \in {<<NoneVal, NoneVal>>, <<V10, NoneVal>>, <<NoneVal, 0>>}}
    \cup {Add("Sub", "", "Inner", NoExpr, Expr("Has More", "", ""), V10, NoneVal, NoExpr),
          Add("Count", "", "int", NoExpr, NoExpr, NoneVal, NoneVal, Expr("User Version", "==", "2"))}

InitGuards == InitOf({DocOf(<<LinkCompound>>, adds) : adds \in Lists(GuardFields, MaxFields)})
SpecGuards == InitGuards /\ [][Next]_vars

\* counts, computed fields and the arrays the counts size
ComputeFields ==
    LET int(name, suffix, arr1) == Add(name, suffix, "int", arr1, NoExpr, NoneVal, NoneVal, NoExpr)
        count == Expr("Count", "", "")
    IN  {int("Count", "", NoExpr),
         [int("Count", "", NoExpr) EXCEPT !.calculated = TRUE],
         [int("Width", "", NoExpr) EXCEPT !.func = "CalcWidth"],
         int("Data", "", count),
         int("More", "", count),
         int("Data", "B", count)}

InitCompute == InitOf({DocOf(<<LinkCompound>>, adds) : adds \in Lists(ComputeFields, MaxFields)})
SpecCompute == InitCompute /\ [][Next]_vars

\* a compound that holds the compound with the reference
OuterCompound ==
    [name |-> "Outer",
     adds |-> <<Add("Sub", "", "Inner", NoExpr, NoExpr, NoneVal, NoneVal, NoExpr)>>]

\* the compound Inner with a member of type t
InnerCompound(t) ==
    [name |-> "Inner",
     adds |-> <<Add("Link", "", t, NoExpr, NoExpr, NoneVal, NoneVal, NoExpr)>>]

\* fields of basic and of compound types, with and without references
LinkFields ==
    {Add("Count", "", "int", NoExpr, NoExpr, NoneVal, NoneVal, NoExpr),
     Add("Link", "", "Ref", NoExpr, NoExpr, NoneVal, NoneVal, NoExpr),
     Add("Data", "", "Ptr", NoExpr, NoExpr, V10, NoneVal, NoExpr),
     Add("Sub", "", "Inner", NoExpr, NoExpr, NoneVal, NoneVal, NoExpr),
     Add("More", "", "Outer", NoExpr, Expr("Has More", "", ""), NoneVal, NoneVal, NoExpr)}

\* the two compounds in both declaration orders
InitLinks ==
    InitOf({DocOf(cs, adds) :
              cs \in UNION {{<<InnerCompound(t), OuterCompound>>, <<OuterCompound, InnerCompound(t)>>} :
                              t \in {"int", "Ref", "Ptr"}},
              adds \in Lists(LinkFields, MaxFields)})
SpecLinks == InitLinks /\ [][Next]_vars

\* fields that share a name, with and without suffix
DupFields ==
    {Add(n, x, "int", NoExpr, NoExpr, NoneVal, NoneVal, NoExpr) : n \in {"Data", "More"}, x \in {"", "A", "B"}}

InitDup == InitOf({DocOf(<<LinkCompound>>, adds) : adds \in Lists(DupFields, MaxFields)})
SpecDup == InitDup /\ [][Next]_vars

\* a count and fields that name it in arr1, arr2 and cond, with an empty, a
\* numeric and a non-numeric right-hand side
RefFields ==
    LET int(name, suffix, arr1, cond) == Add(name, suffix, "int", arr1, cond, NoneVal, NoneVal, NoExpr)
    IN  {int("Count", "", NoExpr, NoExpr),
         int("Data", "", Expr("Count", "", ""), NoExpr),
         int("Data", "A", Expr("Count", "+", "1"), Expr("Count", "==", "Mask")),
         int("Data", "B", Expr("Count", "&", "Mask"), Expr("Count", ">=", "2")),
         [int("More", "", Expr("Count", "", ""), NoExpr) EXCEPT !.arr2 = Expr("Count", "-", "1")],
         [int("More", "A", Expr("Count", "", ""), NoExpr) EXCEPT !.arr2 = Expr("Count", "-", "Mask")]}

InitRefs == InitOf({DocOf(<<LinkCompound>>, adds) : adds \in Lists(RefFields, MaxFields)})
SpecRefs == InitRefs /\ [][Next]_vars

\* arrays: documents with arrays of a symbolic and of a literal bound, in one
\* and in two dimensions, of basic type and of a compound with a count and an
\* array of references; and documents whose patched block has fields of its
\* own: the count the patch names, plain, with a Calc function and
\* calculated, the arrays and a condition that use it, and a second count
\* with its array
InitArrays ==
    LET int(name, arr1, cond, ver1) == Add(name, "", "int", arr1, cond, ver1, NoneVal, NoExpr)
        arr(name, suffix, type, arr1, arr2) ==
            [Add(name, suffix, type, Expr(arr1, "", ""), NoExpr, NoneVal, NoneVal, NoExpr)
                EXCEPT !.arr2 = Expr(arr2, "", "")]
        ArrayCompound ==
            [name |-> "Inner",
             adds |-> <<int("Count", NoExpr, NoExpr, NoneVal),
                        Add("Link", "", "Ref", Expr("Count", "", ""), NoExpr, NoneVal, NoneVal, NoExpr)>>]
        ArrayFields ==
            {int("Count", NoExpr, NoExpr, NoneVal),
             arr("Data", "", "Ref", "Count", ""),
             arr("Data", "A", "Ptr", "2", ""),
             arr("More", "", "Ref", "Count", "Count"),
             arr("More", "A", "int", "2", "Data"),
             arr("Sub", "", "Inner", "Count", "")}
        num == int(MANUAL_MEMBER, NoExpr, NoExpr, NoneVal)
        ManualFields ==
            {num,
             [num EXCEPT !.func = "CalcWidth"],
             [num EXCEPT !.calculated = TRUE],
             int("Rotation Keys", Expr(MANUAL_MEMBER, "", ""), NoExpr, NoneVal),
             int("Data", NoExpr, Expr(MANUAL_MEMBER, "!=", "0"), V10),
             int("Count", NoExpr, NoExpr, V10),
             int("More", Expr("Count", "", ""), NoExpr, NoneVal)}
    IN  InitOf({DocOf(<<ArrayCompound>>, adds) : adds \in Lists(ArrayFields, MaxFields)}
               \cup {[basic    |-> <<"int", "Ref", "Ptr">>,
                      compound |-> <<LinkCompound>>,
                      niobject |-> <<[name |-> MANUAL_BLOCK, inherit |-> "", adds |-> adds]>>] :
                         adds \in Lists(ManualFields, MaxFields)})
SpecArrays == InitArrays /\ [][Next]_vars

\* nested stream calls: documents with a compound whose array is sized by the
\* argument of the field that holds it, under two counts and fields that pass
\* the one or the other; and documents with a compound that contains itself,
\* directly or through a second compound, and one without
InitNested ==
    LET int(name) == Add(name, "", "int", NoExpr, NoExpr, NoneVal, NoneVal, NoExpr)
        sub(suffix, arg) ==
            [Add("Sub", suffix, "Inner", NoExpr, NoExpr, NoneVal, NoneVal, NoExpr) EXCEPT !.arg = arg]
        ArgCompound ==
            [name |-> "Inner",
             adds |-> <<Add("Data", "", "int", Expr("ARG", "", ""), NoExpr, NoneVal, NoneVal, NoExpr)>>]
        ArgFields == {int("Count"), int("More"), sub("", "Count"), sub("B", "More")}
        SelfCompound == [name |-> "Inner", adds |-> <<int("Count"), sub("", "")>>]
        RecursiveCompounds ==
            {<<SelfCompound>>,
             <<OuterCompound, InnerCompound("Outer")>>,
             <<InnerCompound("Outer"), OuterCompound>>,
             <<InnerCompound("Ref"), OuterCompound>>}
    IN  InitOf({DocOf(<<ArgCompound>>, adds) : adds \in Lists(ArgFields, MaxFields)}
               \cup {DocOf(cs, adds) : cs \in RecursiveCompounds, adds \in Lists(LinkFields, MaxFields)})
SpecNested == InitNested /\ [][Next]_vars

\* Type names and parents

MaxBlocks == 2

\* blocks named after each other, after themselves and after a compound
BlockNames == {"A", "B", "Inner"}
BlockElements ==
    {[name |-> n, inherit |-> h, adds |-> <<Add("Value", "", "int", NoExpr, NoExpr, NoneVal, NoneVal, NoExpr)>>] :
        n \in BlockNames, h \in {"", "A", "B", MANUAL_BLOCK}}
InitInherit ==
    InitOf({[basic    |-> <<"int", "Ref", "Ptr">>,
             compound |-> <<LinkCompound>>,
             niobject |-> <<KeyframeData>> \o bs] : bs \in Lists(BlockElements, MaxBlocks)})
SpecInherit == InitInherit /\ [][Next]_vars

\* Expression texts

MaxExprLen == 5
MaxValue == 3

Strings(A, n) == UNION {[1..k -> A] : k \in 0..n}

ParseAlphabet == {"a", "(", ")", "&", ">", "=", "!", " "}

\* the texts of the doctests of _partition, and one with a bracketed right side
PartitionTexts ==
    {<<"a", "b", "c", " ", "|", "|", " ", "e", "f", "g">>,
     <<"a", "b", "c", "|", "|", "e", "f", "g">>,
     <<"a", "b", "c", "d", "e", "f", "g">>,
     <<" ", "a", "b", "c", "d", "e", "f", "g", " ">>,
     <<" ", "(", "a", " ", "|", " ", "b", ")", " ", "&", " ", "c", " ">>,
     <<"(", "a", " ", "|", " ", "b", ")", "!", "=", "(", "b", "&", "c", ")">>,
     <<"(", "a", "=", "=", " ", "b", ")", " ", "&", "&", "(", "(", " ", "b", "!", "=", "c", ")", "|", "|", "d", " ", ")">>,
     <<"a", " ", "&", "&", " ", "(", "b", " ", "|", "|", " ", "c", ")">>}

InitExpr(texts, datas) ==
    /\ InitProgram({DocOf(<<>>, <<>>)})
    /\ expr \in {[at |-> "input", s |-> s, data |-> d] : s \in texts, d \in datas}
    /\ file = [at |-> "none"]

\* every text over the alphabet up to the length bound
InitParse ==
    InitExpr(Strings(ParseAlphabet, MaxExprLen) \cup PartitionTexts,
             {Object([n \in {<<"a">>, <<"b">>, <<"c">>, <<"d">>} |-> 1])})
SpecParse == InitParse /\ [][NextExpr]_vars

\* two operands joined by an operator, and such a text in brackets as the
\* left side of a second operator
Operands == {<<"x">>, <<"y">>, <<"1">>, <<"9", "9">>, <<"1", "5">>}
Spacing == {<<>>, <<" ">>}
Flat(ops) == {l \o sp \o o \o sp \o r : l \in Operands, o \in ops, sp \in Spacing, r \in Operands}
EvalTexts ==
    Flat(operators) \cup
    {<<"(">> \o f \o <<")">> \o o \o r :
        f \in Flat({<<"&">>, <<"=", "=">>}), o \in {<<"&", "&">>, <<"&">>}, r \in Operands}
EvalData == {NoData} \cup {Object(a) : a \in [{<<"x">>, <<"y">>} -> 0..MaxValue]}

InitEval == InitExpr(EvalTexts, EvalData)
SpecEval == InitEval /\ [][NextExpr]_vars

\* Files with custom code

MaxLines == 4

\* the texts of the lines of a prior file
LineTexts ==
    {"//--BEGIN MISC CUSTOM CODE--//", "//--BEGIN FILE HEAD CUSTOM CODE--//",
     "//--BEGIN INCLUDE CUSTOM CODE--//", END_CUSTOM, "x", "y"}

\* the files of up to MaxLines lines, the last line with or without newline
PriorFiles ==
    {NoFile, File(<<>>)} \cup
    {File([i \in 1..Len(ts) |-> [toks |-> <<ts[i]>>, eol |-> i < Len(ts) \/ nl]]) :
        ts \in Lists(LineTexts, MaxLines), nl \in BOOLEAN}

InitCustom ==
    /\ InitProgram({DocOf(<<>>, <<>>)})
    /\ expr = [at |-> "none"]
    /\ file \in {[at |-> "start", prior |-> f, disk |-> f, old |-> f, runs |-> 0,
                  custom |-> <<>>, before |-> <<>>] : f \in PriorFiles}
SpecCustom == InitCustom /\ [][NextCustom]_vars

Spec == SpecGuards

-----------------------------------------------------------------------------
\* Properties

Lines(P(_)) == {n \in 1..Len(out) : P(out[n])}
Count(P(_)) == Cardinality(Lines(P))

\* the lines that open and that close a version or condition guard
GuardOpen(l)  == l.k \in {"ifver", "ifcond"}
GuardClose(l) == l.k \in {"closever", "closecond", "endver", "endcond"}

\* the top-level stream call of the generator has returned
Returned == pc = "idle" /\ gen.what = "stream"

\* the indices of the lines whose '{' is still open after the first n lines
RECURSIVE OpenAfter(_)
OpenAfter(n) ==
    IF n = 0 THEN <<>>
    ELSE LET prev == OpenAfter(n - 1)
         IN  IF out[n].d = 1 THEN Append(prev, n)
             ELSE IF out[n].d = -1 /\ prev # <<>> THEN SubSeq(prev, 1, Len(prev) - 1)
             ELSE prev

\* the type streamed by the top-level call and its fields as declared
GenType == IF gen.isblock THEN block_types[gen.name] ELSE compound_types[gen.name]

\* C1: when a stream call for Read, Write, FixLinks or Describe has returned,
\* it has emitted as many guard-closing lines as guard-opening lines
C1_GuardsClosed ==
    (Returned /\ gen.action \in {ACTION_READ, ACTION_WRITE, ACTION_FIXLINKS, ACTION_OUT})
        => \A c \in 1..ncalls :
              Count(LAMBDA l : l.call = c /\ GuardOpen(l)) = Count(LAMBDA l : l.call = c /\ GuardClose(l))

\* C2: whenever a stream call opens a version guard, no version guard and no
\* condition guard of the same call is open; whenever it opens a condition
\* guard, no condition guard of the same call is open
C2_GuardNesting ==
    \A n \in 1..Len(out) :
        LET open == OpenAfter(n - 1)
            openk(K) == \E i \in 1..Len(open) : out[open[i]].call = out[n].call /\ out[open[i]].k \in K
        IN  /\ out[n].k = "ifver"  => ~openk({"ifver", "ifcond"})
            /\ out[n].k = "ifcond" => ~openk({"ifcond"})

\* the version metadata of a field, and whether it has any
VerTuple(y) == <<y.ver1, y.ver2, y.userver, y.userver2, ExprCode(y.vercond, "info.")>>
HasVersion(y) == VerPieces(y, ExprCode(y.vercond, "info.")) # <<>>

\* the fields of the streamed type the top-level call did not skip, in order
Emitted == SelectSeq([i \in 1..Len(GenType.members) |-> i], LAMBDA i : <<1, i>> \notin skipped)

\* the emitted fields that start a maximal run of identical version metadata
RunStarts ==
    {Emitted[n] : n \in {n \in 1..Len(Emitted) :
        n = 1 \/ VerTuple(GenType.members[Emitted[n]]) # VerTuple(GenType.members[Emitted[n - 1]])}}

AllVersioned == \A i \in 1..Len(GenType.members) : HasVersion(GenType.members[i])

Forward(l) == l.k \notin {"prep", "ancestor", "compute"}

\* C4: a stream call for a Block that inherits emits the call of the parent's
\* function of the same action before every statement of the reverse pass and
\* of the forward pass, and has emitted exactly one such call when it returns
C4_AncestorFirst ==
    (gen.what = "stream" /\ GenType.inherit # "")
        => LET anc(l) == /\ l.k = "ancestor" /\ l.call = 1
                         /\ l.tgt = class_name(GenType.inherit) /\ l.how = ToString(gen.action)
           IN  /\ \A n \in 1..Len(out) :
                     out[n].k \notin {"prep", "ancestor"} => \E m \in 1..(n - 1) : anc(out[m])
               /\ Count(LAMBDA l : l.k = "ancestor") <= 1
               /\ Returned => Count(anc) = 1

\* a block that inherits has been streamed with a statement of the reverse
\* pass and a statement of the forward pass behind the call of the parent
C4_Witness ==
    /\ Returned /\ GenType.inherit # ""
    /\ \E a, b, c \in 1..Len(out) :
          /\ a < b /\ b < c
          /\ out[a].k = "ancestor" /\ out[b].k = "compute" /\ out[c].k = "leaf"

\* C5: within one stream call no statement of the reverse pass follows a
\* statement of the forward pass, the statements of the reverse pass are in
\* reverse declaration order of their fields, and Read emits none
C5_ComputeBeforeFields ==
    gen.what = "stream"
        => /\ \A m, n \in 1..Len(out) :
                 (m < n /\ out[m].call = out[n].call /\ out[n].k = "compute")
                     => /\ ~Forward(out[m])
                        /\ out[m].k = "compute" => out[m].fld >= out[n].fld
           /\ gen.action = ACTION_READ => Count(LAMBDA l : l.k = "compute") = 0

\* two fields have been recomputed, the later field first, and then streamed
C5_Witness ==
    /\ Returned
    /\ \E a, b, c \in 1..Len(out) :
          /\ a < b /\ b < c
          /\ out[a].k = "compute" /\ out[b].k = "compute" /\ out[a].fld > out[b].fld
          /\ out[c].k = "leaf" /\ out[c].call = out[a].call

\* the fields whose value is derived from others
LaterArrays(ms, i) ==
    {j \in (i + 1)..Len(ms) :
        ms[j].arr1.lhs = ms[i].name /\ (ms[j].arr1.rhs = "" \/ isdigit(ms[j].arr1.rhs))}
Derived(ms, i) ==
    \/ ms[i].func # ""
    \/ ms[i].is_calculated
    \/ ms[i].arr1.lhs = "" /\ LaterArrays(ms, i) # {}
Recomputed(i) == \E n \in 1..Len(out) : out[n].call = 1 /\ out[n].k = "compute" /\ out[n].fld = i

\* C6 as stated: for Write and for Describe the reverse pass emits a recompute
\* statement for every non-duplicate, not manually updated derived field
C6_Original ==
    (Returned /\ gen.action \in {ACTION_WRITE, ACTION_OUT})
        => \A i \in 1..Len(GenType.members) :
              LET y == GenType.members[i]
              IN  (~y.is_duplicate /\ ~y.is_manual_update /\ Derived(GenType.members, i)) => Recomputed(i)

\* C6: for Write the reverse pass emits a recompute statement for every
\* non-duplicate, not manually updated derived field; for Describe it emits one
\* for each of them except the fields flagged is_calculated that have no
\* compute function, for which it emits none
C6_Recompute ==
    (Returned /\ gen.action \in {ACTION_WRITE, ACTION_OUT})
        => \A i \in 1..Len(GenType.members) :
              LET y == GenType.members[i]
              IN  (~y.is_duplicate /\ ~y.is_manual_update /\ Derived(GenType.members, i))
                     => (Recomputed(i) <=> ~(gen.action = ACTION_OUT /\ y.func = "" /\ y.is_calculated))

\* Write has recomputed a calculated field and Describe has left one alone
C6_WitnessWrite ==
    /\ Returned /\ gen.action = ACTION_WRITE
    /\ \E i \in 1..Len(GenType.members) :
          GenType.members[i].is_calculated /\ ~GenType.members[i].is_duplicate /\ Recomputed(i)
C6_Witness ==
    /\ Returned /\ gen.action = ACTION_OUT
    /\ \E i, j \in 1..Len(GenType.members) :
          /\ GenType.members[i].is_calculated /\ ~GenType.members[i].is_duplicate /\ ~Recomputed(i)
          /\ GenType.members[j].func # "" /\ Recomputed(j)

\* the count fields: scalar, not recomputed by a function, sizing a later array
IsCount(ms, i) ==
    /\ ~ms[i].is_duplicate /\ ~ms[i].is_manual_update /\ ms[i].func = "" /\ ~ms[i].is_calculated
    /\ ms[i].arr1.lhs = "" /\ LaterArrays(ms, i) # {}
Min(S) == CHOOSE x \in S : \A y \in S : x <= y
Max(S) == CHOOSE x \in S : \A y \in S : x >= y

\* line n assigns the size of field j to field i ahead of every written field
AssignsSize(n, i, j) ==
    /\ out[n].call = 1 /\ out[n].k = "compute" /\ out[n].how = "size" /\ out[n].fld = i
    /\ out[n].tgt = GenType.members[i].cname /\ out[n].src = GenType.members[j].cname
    /\ \A m \in 1..Len(out) : Forward(out[m]) => n < m

\* C7 as stated: Write assigns a count from the size of every later array that
\* names it as its first dimension, before any field is written
C7_Original ==
    (Returned /\ gen.action = ACTION_WRITE)
        => \A i \in 1..Len(GenType.members) :
              IsCount(GenType.members, i)
                 => \A j \in LaterArrays(GenType.members, i) : \E n \in 1..Len(out) : AssignsSize(n, i, j)

\* C7: Write assigns a count, once and before any field is written, from the
\* size of one field: the last declared field that has the name of the first
\* later array naming the count as its first dimension
C7_CountFromArray ==
    (Returned /\ gen.action = ACTION_WRITE)
        => \A i \in 1..Len(GenType.members) :
              IsCount(GenType.members, i)
                 => LET ms    == GenType.members
                        first == Min(LaterArrays(ms, i))
                        j     == Max({k \in 1..Len(ms) : ms[k].name = ms[first].name})
                    IN  /\ \E n \in 1..Len(out) : AssignsSize(n, i, j)
                        /\ Cardinality({n \in 1..Len(out) : out[n].call = 1 /\ out[n].k = "compute" /\ out[n].fld = i}) = 1

\* Write has assigned a count that sizes two arrays of the same name from the
\* later of the two
C7_Witness ==
    /\ Returned /\ gen.action = ACTION_WRITE
    /\ \E i \in 1..Len(GenType.members) :
          /\ IsCount(GenType.members, i)
          /\ Cardinality(LaterArrays(GenType.members, i)) = 2
          /\ \E n \in 1..Len(out) : AssignsSize(n, i, Max(LaterArrays(GenType.members, i)))
          /\ GenType.members[Max(LaterArrays(GenType.members, i))].cname
                # GenType.members[Min(LaterArrays(GenType.members, i))].cname

\* some type in the transitive composition of type t is a Ref or a Ptr
RECURSIVE ContainsLink(_, _)
ContainsLink(t, fuel) ==
    IF t \in DOMAIN basic_types
    THEN basic_types[t].nativetype \in {"Ref", "*"}
    ELSE /\ t \in DOMAIN compound_types
         /\ fuel > 0
         /\ \E i \in 1..Len(compound_types[t].members) :
               ContainsLink(compound_types[t].members[i].type, fuel - 1)

FieldHasLink(i) == ContainsLink(GenType.members[i].type, Cardinality(DOMAIN compound_types))

\* C8: in FixLinks, GetRefs and GetPtrs a field is skipped, with no line
\* emitted for it, if and only if no type in the transitive composition of
\* its type is a Ref or a Ptr, whatever the declaration order of the compounds
C8_SkipIffNoLink ==
    (Returned /\ gen.action \in {ACTION_FIXLINKS, ACTION_GETREFS, ACTION_GETPTRS})
        => \A i \in 1..Len(GenType.members) :
              /\ <<1, i>> \in skipped <=> ~FieldHasLink(i)
              /\ <<1, i>> \in skipped => \A n \in 1..Len(out) : ~(out[n].call = 1 /\ out[n].fld = i)

\* the fields of the streamed type that have no suffix
Unsuffixed(i) == GenType.members[i].suffix = ""
Produced(K) == {n \in 1..Len(out) : out[n].call \in {0, 1} /\ out[n].k \in K}
ProducedBy(K, i) == {n \in Produced(K) : out[n].fld = i}
Generated ==
    \/ gen.what \in {"declare", "construct"}
    \/ Returned /\ gen.action = ACTION_OUT
OutputKinds == {"declare", "getter", "construct", "leaf"}

\* C9 as stated: a duplicate field produces no declaration, no initializer and
\* no Describe line, and each field name is declared, constructed and dumped
\* at most once
C9_Original ==
    Generated
        => \A i \in 1..Len(GenType.members) :
              /\ GenType.members[i].is_duplicate => ProducedBy(OutputKinds, i) = {}
              /\ \A j \in 1..Len(GenType.members) :
                    (i # j /\ GenType.members[i].name = GenType.members[j].name)
                        => (ProducedBy(OutputKinds, i) = {} \/ ProducedBy(OutputKinds, j) = {})

\* C9: a duplicate field produces no declaration, no initializer and no
\* Describe line, and among the fields without suffix each field name is
\* declared, constructed and dumped at most once
C9_DuplicateSilent ==
    Generated
        => \A i \in 1..Len(GenType.members) :
              /\ GenType.members[i].is_duplicate => ProducedBy(OutputKinds, i) = {}
              /\ \A j \in 1..Len(GenType.members) :
                    (i # j /\ GenType.members[i].name = GenType.members[j].name
                           /\ Unsuffixed(i) /\ Unsuffixed(j))
                        => (ProducedBy(OutputKinds, i) = {} \/ ProducedBy(OutputKinds, j) = {})

\* a type with a field and its duplicate has been declared: one declaration
C9_Witness ==
    /\ gen.what = "declare"
    /\ \E i, j \in 1..Len(GenType.members) :
          /\ i < j /\ GenType.members[i].name = GenType.members[j].name
          /\ Unsuffixed(i) /\ Unsuffixed(j) /\ GenType.members[j].is_duplicate
          /\ ProducedBy({"declare"}, i) # {} /\ ProducedBy({"declare"}, j) = {}

\* C10: a loaded field is a duplicate if and only if an earlier sibling has
\* its name and neither of the two declares a suffix
C10_DuplicateIff ==
    pc \in {"idle", "stream"}
        => \A b \in DOMAIN block_types :
              LET ms == block_types[b].members
              IN  \A i \in 1..Len(ms) :
                     ms[i].is_duplicate
                        <=> \E j \in 1..(i - 1) :
                               ms[j].name = ms[i].name /\ ms[i].suffix = "" /\ ms[j].suffix = ""

\* the loader has consumed the whole document
Loaded == pc \in {"idle", "stream"}

\* the later siblings of member i that name it on the left of attribute attr,
\* and those of them whose right-hand side is empty or numeric
Naming(ms, i, attr) == {j \in (i + 1)..Len(ms) : ms[j][attr].lhs = ms[i].name}
Unmasked(ms, i, attr) ==
    {j \in Naming(ms, i, attr) : ms[j][attr].rhs = "" \/ isdigit(ms[j][attr].rhs)}

\* list l holds the names of the members S, each once, in declaration order
ListsInOrder(l, ms, S) ==
    /\ Len(l) = Cardinality(S)
    /\ \A k \in 1..Len(l) :
          \E j \in S : /\ l[k] = ms[j].name
                       /\ Cardinality({x \in S : x < j}) = k - 1

\* C11 as stated: arr1_ref, arr2_ref and cond_ref each list, in declaration
\* order, the later siblings that name the field with an empty or numeric
\* right-hand side, and no sibling with a non-numeric right-hand side
C11_Original ==
    Loaded => \A b \in DOMAIN block_types :
                 LET ms == block_types[b].members
                 IN  \A i \in 1..Len(ms) :
                        /\ ListsInOrder(ms[i].arr1_ref, ms, Unmasked(ms, i, "arr1"))
                        /\ ListsInOrder(ms[i].arr2_ref, ms, Unmasked(ms, i, "arr2"))
                        /\ ListsInOrder(ms[i].cond_ref, ms, Unmasked(ms, i, "cond"))

\* C11: arr1_ref and arr2_ref list, in declaration order, the later siblings
\* that name the field with an empty or numeric right-hand side; cond_ref
\* lists every later sibling whose condition names the field, whatever the
\* right-hand side
C11_RefLists ==
    Loaded => \A b \in DOMAIN block_types :
                 LET ms == block_types[b].members
                 IN  \A i \in 1..Len(ms) :
                        /\ ListsInOrder(ms[i].arr1_ref, ms, Unmasked(ms, i, "arr1"))
                        /\ ListsInOrder(ms[i].arr2_ref, ms, Unmasked(ms, i, "arr2"))
                        /\ ListsInOrder(ms[i].cond_ref, ms, Naming(ms, i, "cond"))

\* a loaded count that a later array names with a non-numeric right-hand side
\* and another with a numeric one: only the second is in arr1_ref
C11_Witness ==
    /\ Loaded
    /\ \E i \in 1..Len(block_types["T"].members) :
          LET ms == block_types["T"].members
          IN  /\ Cardinality(Naming(ms, i, "arr1")) = 2
              /\ Len(ms[i].arr1_ref) = 1
              /\ Cardinality(Unmasked(ms, i, "arr1")) = 1

\* --- expressions

\* the text of the expression has been parsed and evaluated
Evaluated == expr.at = "done"

\* int(s) of a text of digits
RECURSIVE IntOf(_)
IntOf(s) ==
    IF s = <<>> THEN 0
    ELSE 10 * IntOf(SubSeq(s, 1, Len(s) - 1)) + (CHOOSE d \in 0..9 : <<"0", "1", "2", "3", "4", "5", "6", "7", "8", "9">>[d + 1] = s[Len(s)])

\* an operator between two terminals
IsFlat(e) == e.t = "Expression" /\ e._op \in operators /\ e._left.t = "str" /\ e._right.t = "str"
Literal(x) == x.v # <<>> /\ \A p \in 0..(Len(x.v) - 1) : Chr(x.v, p) \in Digits
Bound(x, data) == ~data.none /\ x.v \in DOMAIN data.attrs

\* C12: an expression whose two terminals are integer literals evaluates to
\* its operator applied to the values of the literals, whatever data is,
\* None included: '99 & 15' to 3, '1 == 1' to 1 and '1 != 1' to 0.
C12_LiteralsEvaluate ==
    (Evaluated /\ IsFlat(expr.tree) /\ Literal(expr.tree._left) /\ Literal(expr.tree._right))
        => expr.value = ApplyOp(expr.tree._op, IntVal(IntOf(expr.tree._left.v)), IntVal(IntOf(expr.tree._right.v)))

\* the six comparisons on integers
Compare(op, a, b) ==
    CASE op = <<"=", "=">> -> a = b
      [] op = <<"!", "=">> -> a # b
      [] op = <<">", "=">> -> a >= b
      [] op = <<"<", "=">> -> a <= b
      [] op = <<">">> -> a > b
      [] op = <<"<">> -> a < b
Comparisons == {<<"=", "=">>, <<"!", "=">>, <<">", "=">>, <<"<", "=">>, <<">">>, <<"<">>}

\* C13: with both names bound in data, no operator of the operator list
\* ends in the not-implemented error, and each of the six comparisons,
\* '>' and '<' included, yields the integer comparison of the two values.
C13_EveryOperatorEvaluates ==
    (Evaluated /\ IsFlat(expr.tree) /\ Bound(expr.tree._left, expr.data) /\ Bound(expr.tree._right, expr.data))
        => /\ expr.value.k # "NotImplementedError"
           /\ expr.tree._op \in Comparisons
                => expr.value = Bool(Compare(expr.tree._op, expr.data.attrs[expr.tree._left.v],
                                             expr.data.attrs[expr.tree._right.v]))

\* _partition has been applied to the text
Partitioned == expr.at \in {"raised", "built", "done"}

\* the operator of the triple is the whole operator that starts where it was found
TokenNotSplit(p) == p.at >= 0 => /\ p.op \in operators
                                 /\ p.op = Slice(p.src, p.at, p.at + Len(p.op))
                                 /\ (p.at + 2 <= Len(p.src) /\ Slice(p.src, p.at, p.at + 2) \in operators)
                                        => Len(p.op) = 2

IsTriple(p, l, o, r) == ~p.raised /\ ~p.unary /\ p.left = l /\ p.op = o /\ p.right = r

\* C14: the operator of the triple is the longest operator that starts at
\* the place where the first operator was found, after a bracketed left
\* side as in an unbracketed text; 'abc||efg' gives ('abc', '||', 'efg') and
\* '(a | b)!=(b&c)' gives ('a | b', '!=', 'b&c').
C14_LongestOperator ==
    Partitioned =>
        /\ ~expr.part.raised => TokenNotSplit(expr.part)
        /\ expr.s = <<"a", "b", "c", "|", "|", "e", "f", "g">>
             => IsTriple(expr.part, <<"a", "b", "c">>, <<"|", "|">>, <<"e", "f", "g">>)
        /\ expr.s = <<"(", "a", " ", "|", " ", "b", ")", "!", "=", "(", "b", "&", "c", ")">>
             => IsTriple(expr.part, <<"a", " ", "|", " ", "b">>, <<"!", "=">>, <<"b", "&", "c">>)

\* the first part of C14 alone
C14_TokensWhole == (Partitioned /\ ~expr.part.raised) => TokenNotSplit(expr.part)

\* the round brackets of s match
RECURSIVE BalancedFrom(_, _, _)
BalancedFrom(s, p, depth) ==
    IF p >= Len(s) THEN depth = 0
    ELSE IF Chr(s, p) = "(" THEN BalancedFrom(s, p + 1, depth + 1)
    ELSE IF Chr(s, p) = ")" THEN depth > 0 /\ BalancedFrom(s, p + 1, depth - 1)
    ELSE BalancedFrom(s, p + 1, depth)
Balanced(s) == BalancedFrom(s, 0, 0)

\* the positions of s that lie outside every bracket and start an operator
RECURSIVE DepthAt(_, _)
DepthAt(s, p) ==
    IF p = 0 THEN 0
    ELSE DepthAt(s, p - 1) + (IF Chr(s, p - 1) = "(" THEN 1 ELSE IF Chr(s, p - 1) = ")" THEN -1 ELSE 0)
OuterOperators(s) == {p \in 0..(Len(s) - 1) : DepthAt(s, p) = 0 /\ OpEnd(s, p) # -1}
FirstOuter(s) == CHOOSE p \in OuterOperators(s) : \A q \in OuterOperators(s) : p <= q

\* the text starts, blanks aside, with neither a bracket nor the unary '!'
Unbracketed(s) == strip(s) # <<>> /\ Head(strip(s)) \notin {"(", ")", "!"}

Letters == {"a", "b", "c", "d", "e", "f", "g"}
RECURSIVE LetterCount(_)
LetterCount(s) == IF s = <<>> THEN 0 ELSE (IF Head(s) \in Letters THEN 1 ELSE 0) + LetterCount(Tail(s))
RECURSIVE LettersOf(_)
LettersOf(terminals) == IF terminals = <<>> THEN 0 ELSE LetterCount(Head(terminals)) + LettersOf(Tail(terminals))

\* C15: a text with matching brackets that does not begin with a bracketed
\* group is split at its first operator outside brackets: the left side is
\* the whole text before it and the right side the whole text after it,
\* bracketed sub-expressions included, and the parsed expression has every
\* terminal of the text ('a && (b || c)' gives ('a', '&&', '(b || c)')).
C15_SplitAtFirstOperator ==
    (Partitioned /\ Balanced(expr.s) /\ Unbracketed(expr.s) /\ OuterOperators(expr.s) # {})
        => LET p == FirstOuter(expr.s)
               e == OpEnd(expr.s, p)
           IN  /\ IsTriple(expr.part, strip(Slice(expr.s, 0, p)), Slice(expr.s, p, e + 1),
                           strip(Slice(expr.s, e + 1, Len(expr.s))))
               /\ expr.at # "raised" => LettersOf(get_terminals(expr.tree)) = LetterCount(expr.s)

\* C16: a text whose round brackets do not match never becomes an
\* Expression: the constructor raises ValueError.
C16_UnbalancedRaises == (Partitioned /\ ~Balanced(expr.s)) => expr.at = "raised"

\* an unbalanced text that _partition splits, rejected when its right side is parsed
C16_Witness ==
    /\ expr.at = "raised"
    /\ ~Balanced(expr.s)
    /\ ~expr.part.raised
    /\ expr.part.op \in operators
    /\ Has(expr.part.right, ")")

\* --- the type registry

\* the tables a name is a key of (the document declares no enum and no bitflags)
TablesOf(n) ==
    {t \in {"basic", "compound", "block"} :
        n \in DOMAIN (CASE t = "basic" -> basic_types [] t = "compound" -> compound_types [] t = "block" -> block_types)}
TypeNames == DOMAIN basic_types \cup DOMAIN compound_types \cup DOMAIN block_types

\* C17: a document that declares a name twice, in one category or in two,
\* does not load: in a loaded registry no name is a key of two tables.
C17_NamesUnique == Loaded => \A n \in TypeNames : Cardinality(TablesOf(n)) = 1

\* the niobject elements the load loop has registered so far
BlocksLoaded == IF loadpos > NumBasic + NumCompound THEN loadpos - NumBasic - NumCompound ELSE 0

\* the parent of the i-th niobject element is an earlier niobject element
ParentPrecedes(i) ==
    doc.niobject[i].inherit # "" => \E j \in 1..(i - 1) : doc.niobject[j].name = doc.niobject[i].inherit

\* following inherit from the block called n ends at a block without parent in at most k steps
RECURSIVE ReachesRoot(_, _)
ReachesRoot(n, k) ==
    /\ n \in DOMAIN block_types
    /\ \/ block_types[n].inherit = ""
       \/ k > 0 /\ ReachesRoot(block_types[n].inherit, k - 1)

\* C18: a Block whose inherit names no Block registered before it (itself
\* included) is never registered, the load aborts at it; so the parent of
\* every registered Block precedes it in the document, and the inherit
\* links from any Block end at a Block without parent.
C18_ParentFirst ==
    /\ \A i \in 1..BlocksLoaded : ParentPrecedes(i)
    /\ \A n \in DOMAIN block_types : ReachesRoot(n, Cardinality(DOMAIN block_types))
    /\ (pc = "load" /\ BlocksLoaded < NumBlock /\ loadpos >= NumBasic + NumCompound
            /\ ~ParentPrecedes(BlocksLoaded + 1)) => ~ENABLED (LoadBlock /\ pc' = "load")

\* the load aborted at a block that names itself or a later block as parent
C18_Witness ==
    /\ pc = "abort"
    /\ BlocksLoaded < NumBlock
    /\ loadpos >= NumBasic + NumCompound
    /\ doc.niobject[BlocksLoaded + 1].name \notin DOMAIN block_types
    /\ \E j \in (BlocksLoaded + 1)..NumBlock : doc.niobject[j].name = doc.niobject[BlocksLoaded + 1].inherit

\* --- custom code sections

\* every section name of the fixed set
SectionNames == {Sentinels[b][2] : b \in 1..Len(Sentinels)}

\* the first extraction from the prior file has returned or raised
FirstExtraction == file.at \in {"extracted", "raised"} /\ file.runs = 0

IsBegin(cln) == \E b \in 1..Len(Sentinels) : Finds(cln, Sentinels[b][1])
IsEnd(cln) == Finds(cln, END_CUSTOM)

\* line i lies strictly between the begin sentinel of k in line b and the next end sentinel
Between(lines, k, b, i) ==
    /\ b < i
    /\ Finds(lines[b], BeginOf(k))
    /\ \A j \in (b + 1)..i : ~IsEnd(lines[j])

\* the lines of section k, in file order
RECURSIVE SectionLines(_, _, _)
SectionLines(lines, k, i) ==
    IF i > Len(lines) THEN <<>>
    ELSE (IF \E b \in 1..(i - 1) : Between(lines, k, b, i) THEN <<lines[i]>> ELSE <<>>)
         \o SectionLines(lines, k, i + 1)

\* no begin sentinel stands inside a section
NotNested(lines) ==
    \A b \in 1..Len(lines), i \in 1..Len(lines) :
        (b < i /\ IsBegin(lines[b]) /\ (\A j \in (b + 1)..i : ~IsEnd(lines[j]))) => ~IsBegin(lines[i])

\* every section is closed by an end sentinel
Closed(lines) ==
    \A b \in 1..Len(lines) : IsBegin(lines[b]) => \E e \in (b + 1)..Len(lines) : IsEnd(lines[e])

\* the lines returned for section k, none when the result has no entry for k
SectionReturned(k) == IF k \in DOMAIN file.custom THEN file.custom[k] ELSE <<>>

\* C19: on an existing file whose sections are not nested,
\* extract_custom_code does not raise, and it returns for every section
\* name of the fixed set, include among them, exactly the lines strictly
\* between the begin sentinel of that name and the next end sentinel.
C19_SectionsExtracted ==
    (FirstExtraction /\ file.prior.exists /\ NotNested(file.prior.lines))
        => /\ file.at = "extracted"
           /\ \A k \in SectionNames : SectionReturned(k) = SectionLines(file.prior.lines, k, 1)

\* the file has been written and read again
Reread == file.at = "extracted" /\ file.runs = 1
Rewritten == file.at = "written" /\ file.runs = 2

SameSections ==
    \A n \in 1..Len(BlockSections) : file.custom[BlockSections[n]] = file.before[BlockSections[n]]

\* C20 as stated: whatever the prior file, the sections read back from the
\* regenerated file are the sections written to it, and the second
\* regeneration writes the same file.
C20_Original ==
    /\ Reread => SameSections
    /\ Rewritten => file.disk = file.old

\* C20: when the prior file is absent, or every section of it is closed
\* and no begin sentinel stands inside a section, the sections read back
\* from the regenerated file are the sections written to it, and the
\* second regeneration writes the same file.
WellFormed(f) == ~f.exists \/ (NotNested(f.lines) /\ Closed(f.lines))
C20_Fixpoint ==
    WellFormed(file.prior) =>
        /\ Reread => SameSections
        /\ Rewritten => file.disk = file.old

\* a prior file with two lines in one section, regenerated twice
C20_Witness ==
    /\ Rewritten
    /\ file.prior.exists
    /\ WellFormed(file.prior)
    /\ \E n \in 1..Len(BlockSections) : Len(file.custom[BlockSections[n]]) = 2
    /\ file.disk = file.old

-----------------------------------------------------------------------------
\* Independence of stream calls

\* the fields of the streamed block that are of a compound type, in the order
\* of the nested stream calls they cause (the nested call of the k-th is call k + 1)
CompoundFields ==
    SelectSeq([i \in 1..Len(GenType.members) |-> i],
              LAMBDA i : GenType.members[i].type \in DOMAIN compound_types)

\* the array of the one compound of the document is sized by the argument
BoundIsArgument ==
    Len(doc.compound) = 1 /\ Member(doc.compound[1].adds, 1).arr1.lhs = "ARG"

\* the resize a nested Read emits when the registry is as loaded: the array
\* of the compound, sized by the argument the holding field passes
FreshResize(c) ==
    LET holder == GenType.members[CompoundFields[c - 1]]
        el     == doc.compound[1]
        y      == Member(el.adds, 1)
    IN  holder.cname \o "." \o y.cname \o ".resize(" \o member_name(holder.arg) \o ");"

\* C21: the text a nested stream call emits for a compound does not depend on
\* the stream calls made before it: when Read of a block has returned, the
\* resize of every nested call is the one a registry as loaded gives, sized by
\* the argument of the field that holds the compound
C21_TextIndependent ==
    (Returned /\ gen.action = ACTION_READ) =>
        \A n \in 1..Len(out) :
            (out[n].k = "resize" /\ out[n].call > 1 /\ BoundIsArgument)
                => out[n].txt = FreshResize(out[n].call)

-----------------------------------------------------------------------------
\* The element counter of Describe

CounterReset(l) == l.k = "arrcount" /\ l.txt = "array_output_count = 0;"
CounterStep(l)  == l.k = "arrcount" /\ l.txt = "array_output_count++;"

\* C22: in the body emitted for Describe the element counter is not set back
\* to 0 once it has been incremented: no reset follows an increment
C22_CounterNeverReset ==
    (Returned /\ gen.action = ACTION_OUT) =>
        \A m, n \in 1..Len(out) : (m < n /\ CounterStep(out[m])) => ~CounterReset(out[n])

-----------------------------------------------------------------------------
\* The manual update patch

\* the member list with no flag set
Unflagged(ms) == [i \in 1..Len(ms) |-> [ms[i] EXCEPT !.is_manual_update = FALSE]]

\* the forward pass of a block whose members are all of natively implemented
\* types, from member i on, over the member list ms: guards, loops, leaf
\* statements, closing lines
RECURSIVE ForwardFrom(_, _, _, _)
ForwardFrom(f, ms, i, ind) ==
    IF i > Len(ms) THEN Tag(StreamTail(f), 1, Len(ms) + 1)
    ELSE LET y == ms[i]
             y_cond    == ExprCode(y.cond, "")
             y_vercond == ExprCode(y.vercond, "info.")
             G    == GuardLines(f, y, y_cond, y_vercond)
             ind1 == ind + Delta(G)
             Lp   == LoopLines(f, y, ind1, "", "")
             ind2 == ind1 + Delta(Lp)
             leaf == LeafLines(f, y, ElementName(f, y, ind1), basic_types[y.type], ind2)
             closes == IF y.arr1.lhs = "" THEN <<>> ELSE <<Ln("closeloop", "};", -1)>>
             lines == G \o Lp \o leaf \o closes
             f1 == [f EXCEPT !.lastver1 = y.ver1, !.lastver2 = y.ver2,
                             !.lastuserver = y.userver, !.lastuserver2 = y.userver2,
                             !.lastcond = y_cond, !.lastvercond = y_vercond]
         IN  IF f.action = ACTION_OUT /\ y.is_duplicate
             THEN ForwardFrom(f, ms, i + 1, ind)
             ELSE Tag(lines, 1, i) \o ForwardFrom(f1, ms, i + 1, ind + Delta(lines))

\* the member the patch names
Patched == find_member(GenType.members, MANUAL_MEMBER)

\* C23: the member flagged by the patch gets no statement in the reverse pass
\* of any action, and the forward pass emits what it emits for the same
\* members without the flag
C23_ManualUpdate ==
    (Returned /\ gen.name = MANUAL_BLOCK /\ gen.action \in {ACTION_READ, ACTION_WRITE, ACTION_OUT}) =>
        /\ \A n \in 1..Len(out) : out[n].k = "compute" => out[n].fld # Patched
        /\ SelectSeq(out, Forward)
              = ForwardFrom(NewFrame(1, gen.name, TRUE, gen.action, "", "", "", <<>>),
                            Unflagged(GenType.members), 1, 1)

\* Write of the patched block has returned: the flagged count sizes a later
\* array, is written, and a later member stands under a version guard
C23_Witness ==
    /\ Returned /\ gen.name = MANUAL_BLOCK /\ gen.action = ACTION_WRITE
    /\ GenType.members[Patched].is_manual_update
    /\ GenType.members[Patched].arr1_ref # <<>>
    /\ \E n \in 1..Len(out) : out[n].k = "leaf" /\ out[n].fld = Patched
    /\ \E n \in 1..Len(out) : out[n].k = "ifver"

-----------------------------------------------------------------------------
\* Arrays: resize and counting loops

\* the member a line of a stream call was emitted for; the nested calls of
\* the modelled documents are calls for the one compound Inner
FieldOf(l) ==
    IF l.call = 1 THEN GenType.members[l.fld] ELSE compound_types["Inner"].members[l.fld]

SameField(m, n) == out[m].call = out[n].call /\ out[m].fld = out[n].fld

\* line n opens the loop over the first dimension of its member
FirstLoop(n) ==
    /\ out[n].k = "for"
    /\ ~\E m \in 1..(n - 1) : out[m].k = "for" /\ SameField(m, n)

\* the prefixes of the members of a stream call: none for the block, the
\* element of the holding member for a nested call
Prefixes ==
    {""} \cup {GenType.members[i].cname \o e \o "." :
                  i \in 1..Len(GenType.members),
                  e \in {""} \cup {"[i" \o ToString(d) \o "]" : d \in 1..Len(out)}}

\* the loop of line n runs to the size of the container of its member
SizeLoop(n) ==
    \E p \in Prefixes, d \in 1..Len(out) :
        out[n].txt = ForLine(d, p \o FieldOf(out[n]).cname \o ".size()").txt

\* the loop of line n runs to the literal bound, the size the container is declared with
LiteralLoop(n) ==
    \E d \in 1..Len(out) : out[n].txt = ForLine(d, FieldOf(out[n]).arr1.lhs).txt

\* C24: a resize is emitted only by Read and stands immediately in front of
\* the loop it sizes; the loop over the first dimension of a member is
\* preceded by a resize exactly when the action is Read and the bound is no
\* integer literal; the loop runs to the size of the container, which for a
\* literal bound is the literal
C24_ResizeOnlyOnRead ==
    Returned =>
        \A n \in 1..Len(out) :
            /\ out[n].k = "resize" =>
                  /\ gen.action = ACTION_READ
                  /\ n < Len(out) /\ out[n + 1].k = "for" /\ SameField(n, n + 1)
            /\ FirstLoop(n) =>
                  LET y == FieldOf(out[n])
                      resized == n > 1 /\ out[n - 1].k = "resize" /\ SameField(n - 1, n)
                  IN  /\ resized <=> (gen.action = ACTION_READ /\ ~isdigit(y.arr1.lhs))
                      /\ IF isdigit(y.arr1.lhs) THEN LiteralLoop(n) ELSE SizeLoop(n)

\* Read has returned with a resized array in a nested call and with an array
\* of literal bound
C24_Witness ==
    /\ Returned /\ gen.action = ACTION_READ
    /\ \E n \in 1..Len(out) : out[n].k = "resize" /\ out[n].call > 1
    /\ \E n \in 1..Len(out) : FirstLoop(n) /\ isdigit(FieldOf(out[n]).arr1.lhs)

-----------------------------------------------------------------------------
\* Collecting references

Collect(l) == l.k = "leaf" /\ l.how \in {"ref", "ptr"}

\* C25: a collect statement of GetRefs is emitted by GetRefs, for a member that
\* is no duplicate and whose type is the owning reference; a collect statement
\* of GetPtrs by GetPtrs, for a member that is no duplicate and whose type is
\* the non-owning reference; so no member is collected by both
C25_CollectByKind ==
    Returned =>
        \A n \in 1..Len(out) :
            Collect(out[n]) =>
                LET y == FieldOf(out[n])
                IN  /\ ~y.is_duplicate
                    /\ y.type \in DOMAIN basic_types
                    /\ IF out[n].how = "ref"
                       THEN gen.action = ACTION_GETREFS /\ basic_types[y.type].nativetype = "Ref"
                       ELSE gen.action = ACTION_GETPTRS /\ basic_types[y.type].nativetype = "*"

\* GetRefs has returned for a block with a reference, a duplicate of it and a
\* pointer: the reference is collected, once
C25_Witness ==
    /\ Returned /\ gen.action = ACTION_GETREFS
    /\ \E i, j, k \in 1..Len(GenType.members) :
          /\ GenType.members[i].type = "Ref" /\ ~GenType.members[i].is_duplicate
          /\ GenType.members[j].type = "Ref" /\ GenType.members[j].is_duplicate
          /\ GenType.members[k].type = "Ptr"
          /\ \E n \in 1..Len(out) : Collect(out[n]) /\ out[n].call = 1 /\ out[n].fld = i
    /\ Cardinality({n \in 1..Len(out) : Collect(out[n])}) = 1

-----------------------------------------------------------------------------
\* Reading the sections before the file is rewritten

\* the pieces the current run writes, in the order written
Written == WriteSections(file.custom, 1)

\* the position among the written pieces of the begin sentinel of the n-th section
RECURSIVE BeginAt(_)
BeginAt(n) ==
    IF n = 1 THEN 2
    ELSE BeginAt(n - 1) + Len(file.custom[BlockSections[n - 1]]) + 3

\* in the written pieces W the lines of the n-th section stand between its
\* begin sentinel and the end sentinel, both written by this run, with
\* generated code in front
Enclosed(W, n) ==
    LET k == BlockSections[n]
        b == BeginAt(n)
        e == b + Len(file.custom[k]) + 1
    IN  /\ e < Len(W)
        /\ W[b - 1] = GeneratedCode
        /\ W[b] = TextLine(BeginOf(k))
        /\ SubSeq(W, b + 1, e - 1) = file.custom[k]
        /\ W[e] = TextLine(END_CUSTOM)

\* C26: while the sections are in hand and the file is not yet opened for
\* writing, they are the sections of the file on disk; once the file is
\* rewritten, the sections written are those read from the version it
\* replaced, each between a begin and an end sentinel of this run, and
\* nothing else but generated code is written
C26_ReadBeforeTruncate ==
    /\ file.at = "extracted" =>
          LET r == extract_custom_code(file.disk) IN ~r.raised /\ file.custom = r.custom
    /\ file.at = "written" =>
          LET r == extract_custom_code(file.old)
              W == Written
              last == Len(BlockSections)
          IN  /\ ~r.raised /\ file.custom = r.custom
              /\ file.disk = File(readlines(W))
              /\ \A n \in 1..last : Enclosed(W, n)
              /\ Len(W) = BeginAt(last) + Len(file.custom[BlockSections[last]]) + 2
              /\ W[Len(W)] = GeneratedCode

\* a file with a line of custom code in a section has been rewritten
C26_Witness ==
    /\ file.at = "written" /\ file.runs = 1
    /\ file.old.exists
    /\ \E n \in 1..Len(BlockSections) : file.custom[BlockSections[n]] = <<TextLine("x")>>
    /\ file.disk # file.old

-----------------------------------------------------------------------------
\* The guards around a leaf statement

\* the guards of the call of line n that are open in front of it, outermost first
OpenGuards(n) ==
    LET open == OpenAfter(n - 1)
        mine == SelectSeq(open, LAMBDA i : out[i].call = out[n].call /\ GuardOpen(out[i]))
    IN  [i \in 1..Len(mine) |-> <<out[mine[i]].k, out[mine[i]].tgt>>]

\* the guards the metadata of member y asks for: its version guard, if it has
\* version metadata, around its condition guard, if it has a condition
OwnGuards(y) ==
    LET y_vercond == ExprCode(y.vercond, "info.")
        y_cond    == ExprCode(y.cond, "")
    IN     (IF HasVersion(y) THEN <<<<"ifver", JoinAnd(VerPieces(y, y_vercond))>>>> ELSE <<>>)
        \o (IF y_cond # "" THEN <<<<"ifcond", y_cond>>>> ELSE <<>>)

\* C27: in Read, Write and FixLinks the guards of a stream call that are open
\* around a leaf statement are the version guard and the condition guard of
\* the member the statement is for, and no guard of an earlier member
C27_OwnGuardsOnly ==
    gen.action \in {ACTION_READ, ACTION_WRITE, ACTION_FIXLINKS} =>
        \A n \in 1..Len(out) :
            out[n].k = "leaf" => OpenGuards(n) = OwnGuards(FieldOf(out[n]))

\* the formula of C27 for the documents without a user version of 0
C27_WithoutUserVersion0 ==
    (\A i \in 1..Len(doc.niobject[2].adds) : doc.niobject[2].adds[i].userver # 0)
        => C27_OwnGuardsOnly

-----------------------------------------------------------------------------
\* Pushes of Read and pops of FixLinks

\* the references a value of the type with members ms holds, in declaration
\* order, those of the members of compound type in their place
RECURSIVE References(_, _)
References(ms, fuel) ==
    Flatten([i \in 1..Len(ms) |->
        IF ms[i].type \in DOMAIN basic_types
        THEN IF basic_types[ms[i].type].nativetype \in {"Ref", "*"} THEN <<ms[i].cname>> ELSE <<>>
        ELSE IF ms[i].type \in DOMAIN compound_types /\ fuel > 0
        THEN References(compound_types[ms[i].type].members, fuel - 1)
        ELSE <<>>])

\* the members the emitted statements of form how are for, in the order emitted
LeavesOf(how) ==
    LET at == SelectSeq([n \in 1..Len(out) |-> n], LAMBDA n : out[n].k = "leaf" /\ out[n].how = how)
    IN  [i \in 1..Len(at) |-> out[at[i]].tgt]

\* C28: the pushes Read emits and the pops FixLinks emits are both, in number
\* and order, the references of the type in declaration order, so that they
\* correspond one to one
C28_PushesMatchPops ==
    /\ (Returned /\ gen.action = ACTION_READ) =>
          LeavesOf("push") = References(GenType.members, Cardinality(DOMAIN compound_types))
    /\ (Returned /\ gen.action = ACTION_FIXLINKS) =>
          LeavesOf("pop") = References(GenType.members, Cardinality(DOMAIN compound_types))

\* the formula of C28 for the documents that declare Inner before Outer
C28_DeclaredBeforeUse ==
    doc.compound[1].name = "Inner" => C28_PushesMatchPops

-----------------------------------------------------------------------------
\* The order of the member list

\* the names and suffixes of a list of members or of <add> elements, in order
Order(ms) == [i \in 1..Len(ms) |-> <<ms[i].name, ms[i].suffix>>]

\* every registered compound and block lists its members in the order of the document
DeclarationOrder ==
    /\ \A i \in 1..Len(doc.compound) :
          doc.compound[i].name \in DOMAIN compound_types =>
              Order(compound_types[doc.compound[i].name].members) = Order(doc.compound[i].adds)
    /\ \A i \in 1..Len(doc.niobject) :
          doc.niobject[i].name \in DOMAIN block_types =>
              Order(block_types[doc.niobject[i].name].members) = Order(doc.niobject[i].adds)

\* C29: unless a stream call has ended in an exception, the member list of
\* every type is in declaration order: in front of a stream call, in its
\* forward pass, in the nested calls, and after it has returned, for every action
C29_OrderKept == pc # "abort" => DeclarationOrder

\* Write has returned after a reverse pass over the block and over a
\* compound it holds, each with members of different names
C29_Witness ==
    /\ Returned /\ gen.action = ACTION_WRITE
    /\ \E n \in 1..Len(out) : out[n].k = "compute" /\ out[n].call = 1
    /\ \E n \in 1..Len(out) : out[n].k = "compute" /\ out[n].call > 1
    /\ \E i, j \in 1..Len(GenType.members) : GenType.members[i].name # GenType.members[j].name

-----------------------------------------------------------------------------
\* Recursion into compounds

\* C30: the recursion of stream and of has_arr into members of compound type
\* is bounded: no type is entered while a call for it is live, and has_arr
\* returns for every block of the loaded registry
C30_RecursionBounded ==
    /\ \A i, j \in 1..Len(stack) :
          i < j => <<stack[i].isblock, stack[i].block>> # <<stack[j].isblock, stack[j].block>>
    /\ Loaded => \A b \in DOMAIN block_types :
          has_arr(TRUE, b, 1, Cardinality(DOMAIN compound_types)) # "RecursionError"

\* the formula of C30 for the registry in which no compound contains itself
C30_Acyclic ==
    doc.compound = <<InnerCompound("Ref"), OuterCompound>> => C30_RecursionBounded

====
